---- MODULE Spec2Model ----
(***************************************************************************)
(* Model of the Enhanced Title Generator plugin: the title generation      *)
(* controller (AIService.generateTitle), the model catalogue cache         *)
(* (ModelService), the duplicate-title detector, the pure helpers of       *)
(* utils.ts, aiService.ts and errorHandler.ts, the batch command and      *)
(* processSingleFile of main.ts, and the settings tab of settings.ts as    *)
(* the caller of ModelService.                                             *)
(* Strings are TLA+ strings; a character is a string of length 1.          *)
(***************************************************************************)
EXTENDS FiniteSets, Integers, Sequences, TLC

VARIABLES
    snapshot,      \* which snapshot of aiService.ts is built into the plugin
    settings,      \* TitleGeneratorSettings fields read by AIService
    gpc,           \* position of the generateTitle call
    title,         \* local variable `title` of generateTitle
    draft,         \* the normalized draft: `title` as compared with maxTitleLength
    drafted,       \* whether the draft request of the current call has succeeded
    requests,      \* backend generation requests issued by the current call
    result,        \* value returned by generateTitle
    outcome,       \* which return statement produced `result`
    revision,      \* which revision of modelService.ts is built into the plugin
    cachedModels,  \* settings.cachedModels
    modelLoadingState, \* settings.modelLoadingState
    now,           \* Date.now(), in minutes
    ops,           \* the ModelService call in progress or just completed
    catalogueRequests, \* live catalogue queries issued so far, per provider
    docContent,    \* the note content handed to the duplicate detector
    docTitle,      \* the generated title handed to the duplicate detector
    sensitivity,   \* the sensitivity handed to the duplicate detector
    configInScope, \* whether DUPLICATE_CONFIG resolves inside removeDuplicatesFromContent
    detection,     \* DuplicateDetectionResult of detectTitleInContent
    toRemove,      \* the matches handed to removeDuplicatesFromContent
    removed,       \* outcome of removeDuplicatesFromContent
    dpc,           \* position of the duplicate-detection run
    fnInput,       \* the string a utility function is applied to
    fnName,        \* the utility function that has been applied, "none" before
    fnOutput,      \* what the function returned
    files,         \* files.length of a generateTitlesForMultipleFiles call
    enableDuplicateRemoval, \* settings.enableDuplicateRemoval
    fileStep,      \* for each file of the list, the await its processing stands at
    fileResult,    \* for each file of the list, how its processing ended
    started,       \* the files whose processing has begun, in the order it began
    processed,     \* progress.processed
    succeeded,     \* progress.succeeded
    failed,        \* progress.failed
    vaultFiles,    \* for each run, the TFile it processes: its path, and whether the vault still holds it
    folder,        \* paths of the other files of the folder
    dupSettings,   \* enableDuplicateRemoval, autoRemoveDuplicates, confirmBeforeRemoval
    runs,          \* for each run of processSingleFile, its position and locals
    written,       \* for each run, the content it has written with vault.modify
    calls,         \* the ModelService calls the settings tab has made, in the order made
    reloadDisabled \* whether the reload button on display is disabled

genVars == <<snapshot, settings, gpc, title, draft, drafted, requests, result, outcome>>
cacheVars == <<revision, cachedModels, modelLoadingState, now, ops, catalogueRequests>>
dupVars == <<docContent, docTitle, sensitivity, configInScope, detection, toRemove, removed, dpc>>
fnVars == <<fnInput, fnName, fnOutput>>
batchVars == <<files, enableDuplicateRemoval, fileStep, fileResult, started, processed,
               succeeded, failed>>
runVars == <<vaultFiles, folder, dupSettings, runs, written>>
tabVars == <<calls, reloadDisabled>>
vars == <<genVars, cacheVars, dupVars, fnVars, batchVars, runVars, tabVars>>

----------------------------------------------------------------------------
(* JavaScript string primitives *)

CharAt(s, i) == SubSeq(s, i, i)

Min(S) == CHOOSE x \in S : \A y \in S : x <= y

Max(S) == CHOOSE x \in S : \A y \in S : x >= y

\* the characters matched by \s (and removed by trim) that occur in the inputs
IsSpaceChar(c) == c \in {" ", "\n", "\t"}

RECURSIVE TrimStart(_)
TrimStart(s) ==
    IF Len(s) > 0 /\ IsSpaceChar(CharAt(s, 1)) THEN TrimStart(Tail(s)) ELSE s

RECURSIVE TrimEnd(_)
TrimEnd(s) ==
    IF Len(s) > 0 /\ IsSpaceChar(CharAt(s, Len(s)))
    THEN TrimEnd(SubSeq(s, 1, Len(s) - 1)) ELSE s

\* String.prototype.trim
Trim(s) == TrimEnd(TrimStart(s))

\* String.prototype.indexOf(pat, from), 1-based; 0 when pat does not occur
IndexOfFrom(s, pat, from) ==
    LET hits == {i \in from..(Len(s) - Len(pat) + 1) : SubSeq(s, i, i + Len(pat) - 1) = pat}
    IN IF hits = {} THEN 0 ELSE Min(hits)

IndexOf(s, pat) == IndexOfFrom(s, pat, 1)

\* String.prototype.lastIndexOf(pat), 1-based; 0 when pat does not occur
LastIndexOf(s, pat) ==
    LET hits == {i \in 1..(Len(s) - Len(pat) + 1) : SubSeq(s, i, i + Len(pat) - 1) = pat}
    IN IF hits = {} THEN 0 ELSE Max(hits)

\* String.prototype.slice(0, n) for n >= 0
SliceTo(s, n) == SubSeq(s, 1, IF n < Len(s) THEN n ELSE Len(s))

\* String.prototype.slice(n), n counted from 0
SliceFrom(s, n) == SubSeq(s, n + 1, Len(s))

UpperLetters == "ABCDEFGHIJKLMNOPQRSTUVWXYZ"

LowerLetters == "abcdefghijklmnopqrstuvwxyz"

LowerChar(c) ==
    LET i == IndexOf(UpperLetters, c)
    IN IF Len(c) = 1 /\ i > 0 THEN CharAt(LowerLetters, i) ELSE c

\* String.prototype.toLowerCase
RECURSIVE toLowerCase(_)
toLowerCase(s) ==
    IF s = "" THEN "" ELSE LowerChar(CharAt(s, 1)) \o toLowerCase(Tail(s))

\* s.replace(/[chars]/g, '') for a character class given as a predicate
RECURSIVE RemoveChars(_, _)
RemoveChars(s, class) ==
    IF s = "" THEN ""
    ELSE (IF CharAt(s, 1) \in class THEN "" ELSE CharAt(s, 1)) \o RemoveChars(Tail(s), class)

\* s.replace(/\s+/g, ' ')
RECURSIVE CollapseSpaces(_)
CollapseSpaces(s) ==
    IF s = "" THEN ""
    ELSE IF IsSpaceChar(CharAt(s, 1))
         THEN " " \o CollapseSpaces(TrimStart(s))
         ELSE CharAt(s, 1) \o CollapseSpaces(Tail(s))

\* s.replace(/^[class]+/, '')
RECURSIVE StripLeading(_, _)
StripLeading(s, class) ==
    IF Len(s) > 0 /\ CharAt(s, 1) \in class THEN StripLeading(Tail(s), class) ELSE s

\* s.replace(/[class]+$/, '')
RECURSIVE StripTrailing(_, _)
StripTrailing(s, class) ==
    IF Len(s) > 0 /\ CharAt(s, Len(s)) \in class
    THEN StripTrailing(SubSeq(s, 1, Len(s) - 1), class) ELSE s

\* s.replace(/open[\s\S]*?close/g, rep), also /\([^)]*\)/g and /\[[^\]]*\]/g:
\* every leftmost region from `open` to the nearest following `close`
RECURSIVE ReplaceRegions(_, _, _, _)
ReplaceRegions(s, open, close, rep) ==
    LET i == IndexOf(s, open)
        j == IF i = 0 THEN 0 ELSE IndexOfFrom(s, close, i + Len(open))
    IN IF i = 0 \/ j = 0 THEN s
       ELSE SubSeq(s, 1, i - 1) \o rep
            \o ReplaceRegions(SubSeq(s, j + Len(close), Len(s)), open, close, rep)

\* s.split('\n')[0]
FirstLine(s) ==
    LET i == IndexOf(s, "\n") IN IF i = 0 THEN s ELSE SubSeq(s, 1, i - 1)

----------------------------------------------------------------------------
(* utils.ts: sanitizeFilename, truncateTitle *)

\* the class [<>:"\/\\|?*\x00-\x1F]; newline and tab are control characters
ForbiddenChars == {"<", ">", ":", "\"", "/", "\\", "|", "?", "*", "\n", "\t"}

\* sanitizeFilename with the trimming of dots and spaces done first
sanitizeFilename_stripFirst(t) ==
    LET safe1 == StripTrailing(StripLeading(t, {" ", "."}), {" ", "."})
        safe2 == RemoveChars(safe1, ForbiddenChars)
        safe3 == Trim(CollapseSpaces(safe2))
    IN IF Len(safe3) > 0 THEN safe3 ELSE "Untitled"

sanitizeFilename(t) ==
    LET safe1 == RemoveChars(t, ForbiddenChars)
        safe2 == Trim(CollapseSpaces(safe1))
        safe3 == StripTrailing(StripLeading(safe2, {" ", "."}), {" ", "."})
    IN IF Len(safe3) > 0 THEN safe3 ELSE "Untitled"

truncateTitle(t, maxLength) ==
    IF Len(t) <= maxLength THEN t
    ELSE LET truncated == SliceTo(t, maxLength)
             lastSpace == LastIndexOf(truncated, " ") - 1
         IN Trim(IF lastSpace > 0 THEN SliceTo(truncated, lastSpace) ELSE truncated)

----------------------------------------------------------------------------
(* aiService: settings, validation, response cleaning *)

KeyProviders == {"openai", "anthropic", "google"}

UrlProviders == {"ollama", "lmstudio"}

\* type AIProvider
Providers == KeyProviders \cup UrlProviders

\* field of TitleGeneratorSettings holding the credential / endpoint of a provider
CredentialField(s, p) ==
    CASE p = "openai" -> s.openAiApiKey
      [] p = "anthropic" -> s.anthropicApiKey
      [] p = "google" -> s.googleApiKey
      [] p = "ollama" -> s.ollamaUrl
      [] p = "lmstudio" -> s.lmstudioUrl
      [] OTHER -> ""

\* field of TitleGeneratorSettings holding the selected model of a provider
ModelField(s, p) ==
    CASE p = "openai" -> s.openAiModel
      [] p = "anthropic" -> s.anthropicModel
      [] p = "google" -> s.googleModel
      [] p = "ollama" -> s.ollamaModel
      [] p = "lmstudio" -> s.lmstudioModel
      [] OTHER -> ""

\* src/src/aiService.ts: four providers, credential / endpoint only
isConfigurationValid(s) ==
    CASE s.aiProvider = "openai" -> Trim(s.openAiApiKey) # ""
      [] s.aiProvider = "anthropic" -> Trim(s.anthropicApiKey) # ""
      [] s.aiProvider = "google" -> Trim(s.googleApiKey) # ""
      [] s.aiProvider = "ollama" -> Trim(s.ollamaUrl) # ""
      [] OTHER -> FALSE

\* the later snapshot: five providers, credential / endpoint and selected model
isConfigurationValid_part019(s) ==
    CASE s.aiProvider = "openai" -> Trim(s.openAiApiKey) # "" /\ s.openAiModel # ""
      [] s.aiProvider = "anthropic" -> Trim(s.anthropicApiKey) # "" /\ s.anthropicModel # ""
      [] s.aiProvider = "google" -> Trim(s.googleApiKey) # "" /\ s.googleModel # ""
      [] s.aiProvider = "ollama" -> Trim(s.ollamaUrl) # "" /\ s.ollamaModel # ""
      [] s.aiProvider = "lmstudio" -> Trim(s.lmstudioUrl) # "" /\ s.lmstudioModel # ""
      [] OTHER -> FALSE

\* new URL(path, base) throws a TypeError unless base parses as an absolute URL
UrlParses(base) ==
    LET b == Trim(base)
    IN \/ SliceTo(b, 7) = "http://" /\ Len(b) > 7
       \/ SliceTo(b, 8) = "https://" /\ Len(b) > 8

\* callAI and the per-provider call up to the point where the request is sent:
\* TRUE when an exception is thrown before any request leaves
callAIThrows(s) ==
    CASE s.aiProvider = "openai" -> s.openAiApiKey = ""
      [] s.aiProvider = "anthropic" -> s.anthropicApiKey = ""
      [] s.aiProvider = "google" -> s.googleApiKey = ""
      [] s.aiProvider = "ollama" -> ~UrlParses(s.ollamaUrl)
      [] OTHER -> TRUE

callAIThrows_part019(s) ==
    CASE s.aiProvider = "openai" -> s.openAiApiKey = ""
      [] s.aiProvider = "anthropic" -> s.anthropicApiKey = ""
      [] s.aiProvider = "google" -> s.googleApiKey = ""
      [] s.aiProvider = "ollama" -> ~UrlParses(s.ollamaUrl)
      [] s.aiProvider = "lmstudio" -> ~UrlParses(s.lmstudioUrl)
      [] OTHER -> TRUE

LabelPrefixes ==
    <<"title:", "generated title:", "suggested title:", "the title:", "a title:",
      "here's the title:">>

\* s.replace(/^(Title:|Generated title:|...|Here's the title:)\s*/i, '')
StripLabelPrefix(s) ==
    LET hit == {k \in 1..Len(LabelPrefixes) :
                   toLowerCase(SliceTo(s, Len(LabelPrefixes[k]))) = LabelPrefixes[k]}
    IN IF hit = {} THEN s ELSE TrimStart(SliceFrom(s, Len(LabelPrefixes[Min(hit)])))

RECURSIVE cleanAIResponse(_)
cleanAIResponse(response) ==
    IF response = "" THEN ""
    ELSE LET cleaned0 == Trim(response)
             i == IndexOf(cleaned0, "<think>")
             j == IF i = 0 THEN 0 ELSE IndexOfFrom(cleaned0, "</think>", i + 7)
             innerContent == IF j = 0 THEN "" ELSE Trim(SubSeq(cleaned0, i + 7, j - 1))
             thinkMatch == j > 0 /\ j > i + 7
             cleaned1 == IF thinkMatch
                         THEN Trim(ReplaceRegions(cleaned0, "<think>", "</think>",
                                                  cleanAIResponse(innerContent)))
                         ELSE cleaned0
             cleaned2 == StripLabelPrefix(cleaned1)
             cleaned3 == ReplaceRegions(cleaned2, "(", ")", "")
             cleaned4 == ReplaceRegions(cleaned3, "[", "]", "")
             cleaned5 == StripTrailing(cleaned4, {"-", " ", "\n", "\t"})
             cleaned6 == StripLeading(cleaned5, {"-", " ", "\n", "\t"})
             cleaned7 == FirstLine(cleaned6)
             cleaned8 == RemoveChars(cleaned7, {"\"", "'"})
         IN Trim(cleaned8)

\* ProcessTitle with the truncation done before the sanitizing
ProcessTitle_truncateFirst(t, s) ==
    LET lowered == IF s.lowerCaseTitles THEN toLowerCase(t) ELSE t
        truncated == truncateTitle(lowered, s.maxTitleLength)
    IN IF s.removeForbiddenChars THEN sanitizeFilename(truncated) ELSE truncated

\* "Final processing" and "Final safeguard truncation" of generateTitle
ProcessTitle(t, s) ==
    LET lowered == IF s.lowerCaseTitles THEN toLowerCase(t) ELSE t
        processedTitle == IF s.removeForbiddenChars THEN sanitizeFilename(lowered) ELSE lowered
    IN truncateTitle(processedTitle, s.maxTitleLength)

----------------------------------------------------------------------------
(* aiService: inputs of the model *)

\* credential / endpoint values a user can have entered
CredValues == {"", " ", "sk-1", "http://h"}

\* selected model names ("" = none selected)
ModelValues == {"", "m1"}

\* values of maxTitleLength
TitleLengths == {3, 8}

\* settings.aiProvider as loaded from the data file
ProviderValues == Providers \cup {"unknown"}

MkSettings(p, cred, model, maxLen, lower, strip) ==
    [aiProvider |-> p,
     openAiApiKey |-> IF p = "openai" THEN cred ELSE "",
     anthropicApiKey |-> IF p = "anthropic" THEN cred ELSE "",
     googleApiKey |-> IF p = "google" THEN cred ELSE "",
     ollamaUrl |-> IF p = "ollama" THEN cred ELSE "",
     lmstudioUrl |-> IF p = "lmstudio" THEN cred ELSE "",
     openAiModel |-> IF p = "openai" THEN model ELSE "",
     anthropicModel |-> IF p = "anthropic" THEN model ELSE "",
     googleModel |-> IF p = "google" THEN model ELSE "",
     ollamaModel |-> IF p = "ollama" THEN model ELSE "",
     lmstudioModel |-> IF p = "lmstudio" THEN model ELSE "",
     lowerCaseTitles |-> lower,
     removeForbiddenChars |-> strip,
     maxTitleLength |-> maxLen]

DEFAULT_SETTINGS == MkSettings("ollama", "http://h", "", 60, FALSE, TRUE)

\* texts a backend can answer with
RawTexts ==
    {"", "Ab", "My Note", "A long title here", "abcdefghijklmnop",
     "Title: \"My Note\"", "<think>plan</think>Big Plan", "a<b>:c", "...",
     "Notes (draft) - ", "One\nTwo three four", "ab .cd efgh", "ab. cdefgh"}

----------------------------------------------------------------------------------------------------------------------------------------
(* aiService: generateTitle *)

\* the two snapshots of aiService.ts that carry generateTitle with validation:
\* src/src/aiService.ts (183-411) and its later revision with cleanAIResponse
Snapshots == {"aiService.ts", "part_019"}

ConfigurationValid(snap, s) ==
    IF snap = "part_019" THEN isConfigurationValid_part019(s) ELSE isConfigurationValid(s)

CallThrows(snap, s) ==
    IF snap = "part_019" THEN callAIThrows_part019(s) ELSE callAIThrows(s)

\* what generateTitle makes of the text returned by callAI (already trimmed by
\* the per-provider call): the later snapshot cleans it, the earlier one does not
NormalizedTitle(snap, raw) ==
    IF snap = "part_019" THEN cleanAIResponse(Trim(raw)) ELSE Trim(raw)

GenInit ==
    /\ snapshot \in Snapshots
    /\ settings = DEFAULT_SETTINGS
    /\ gpc = "idle"
    /\ title = ""
    /\ draft = ""
    /\ drafted = FALSE
    /\ requests = 0
    /\ result = ""
    /\ outcome = "none"

\* the components MkSettings builds the current settings from
ActiveCredential == CredentialField(settings, settings.aiProvider)

ActiveModel == ModelField(settings, settings.aiProvider)

\* the settings tab changes one setting while no generateTitle call is running
SetSettings ==
    /\ gpc = "idle"
    /\ \/ \E p \in ProviderValues :
            settings' = MkSettings(p, ActiveCredential, ActiveModel, settings.maxTitleLength,
                                   settings.lowerCaseTitles, settings.removeForbiddenChars)
       \/ \E c \in CredValues :
            settings' = MkSettings(settings.aiProvider, c, ActiveModel, settings.maxTitleLength,
                                   settings.lowerCaseTitles, settings.removeForbiddenChars)
       \/ \E m \in ModelValues :
            settings' = MkSettings(settings.aiProvider, ActiveCredential, m, settings.maxTitleLength,
                                   settings.lowerCaseTitles, settings.removeForbiddenChars)
       \/ \E n \in TitleLengths :
            settings' = [settings EXCEPT !.maxTitleLength = n]
       \/ settings' = [settings EXCEPT !.lowerCaseTitles = ~@]
       \/ settings' = [settings EXCEPT !.removeForbiddenChars = ~@]
    /\ UNCHANGED <<snapshot, gpc, title, draft, drafted, requests, result, outcome>>
    /\ UNCHANGED <<cacheVars, dupVars, fnVars, batchVars, runVars, tabVars>>

\* the caller has taken the result; the service is ready for the next call
Finish ==
    /\ gpc = "done"
    /\ gpc' = "idle"
    /\ title' = ""
    /\ draft' = ""
    /\ drafted' = FALSE
    /\ requests' = 0
    /\ result' = ""
    /\ outcome' = "none"
    /\ UNCHANGED <<snapshot, settings>>
    /\ UNCHANGED <<cacheVars, dupVars, fnVars, batchVars, runVars, tabVars>>

\* ReturnFailure handing back the title obtained so far instead of ''
ReturnFailure_keepsTitle(kind) ==
    /\ gpc' = "done"
    /\ result' = title
    /\ outcome' = kind

\* return '' from the configuration check or from the catch block
ReturnFailure(kind) ==
    /\ gpc' = "done"
    /\ result' = ""
    /\ outcome' = kind

\* return truncateTitle(processedTitle, settings.maxTitleLength)
ReturnTitle(t) ==
    /\ gpc' = "done"
    /\ result' = ProcessTitle(t, settings)
    /\ outcome' = "title"

\* generateTitle from its call to the first await (the draft request)
GenerateTitle ==
    /\ gpc = "idle"
    /\ IF ~ConfigurationValid(snapshot, settings)
       THEN ReturnFailure("invalid") /\ UNCHANGED <<title, draft, drafted, requests>>
       ELSE IF CallThrows(snapshot, settings)
            THEN ReturnFailure("error") /\ UNCHANGED <<title, draft, drafted, requests>>
            ELSE /\ requests' = requests + 1
                 /\ gpc' = "awaitDraft"
                 /\ UNCHANGED <<title, draft, drafted, result, outcome>>
    /\ UNCHANGED <<snapshot, settings>>
    /\ UNCHANGED <<cacheVars, dupVars, fnVars, batchVars, runVars, tabVars>>

\* the draft request fails: transport error, status other than 200, malformed body
DraftFails ==
    /\ gpc = "awaitDraft"
    /\ ReturnFailure("error")
    /\ UNCHANGED <<snapshot, settings, title, draft, drafted, requests>>
    /\ UNCHANGED <<cacheVars, dupVars, fnVars, batchVars, runVars, tabVars>>

\* AfterDraft with the length test off by one
AfterDraft_offByOne(t) ==
    IF Len(t) >= settings.maxTitleLength
    THEN IF CallThrows(snapshot, settings)
         THEN ReturnFailure("error") /\ UNCHANGED requests
         ELSE /\ requests' = requests + 1
              /\ gpc' = "awaitRefine"
              /\ UNCHANGED <<result, outcome>>
    ELSE ReturnTitle(t) /\ UNCHANGED requests

\* what follows a normalized draft t: one refinement request when t is too long
AfterDraft(t) ==
    IF Len(t) > settings.maxTitleLength
    THEN IF CallThrows(snapshot, settings)
         THEN ReturnFailure("error") /\ UNCHANGED requests
         ELSE /\ requests' = requests + 1
              /\ gpc' = "awaitRefine"
              /\ UNCHANGED <<result, outcome>>
    ELSE ReturnTitle(t) /\ UNCHANGED requests

\* the draft request succeeds with text raw; the code after the first await
DraftResponse(raw) ==
    /\ gpc = "awaitDraft"
    /\ LET t == NormalizedTitle(snapshot, raw)
       IN title' = t /\ draft' = t /\ drafted' = TRUE /\ AfterDraft(t)
    /\ UNCHANGED <<snapshot, settings>>
    /\ UNCHANGED <<cacheVars, dupVars, fnVars, batchVars, runVars, tabVars>>

\* the refinement request fails
RefineFails ==
    /\ gpc = "awaitRefine"
    /\ ReturnFailure("error")
    /\ UNCHANGED <<snapshot, settings, title, draft, drafted, requests>>
    /\ UNCHANGED <<cacheVars, dupVars, fnVars, batchVars, runVars, tabVars>>

\* the refinement request succeeds with text raw; the code after the second await
RefineResponse(raw) ==
    /\ gpc = "awaitRefine"
    /\ LET t == NormalizedTitle(snapshot, raw)
       IN title' = t /\ ReturnTitle(t)
    /\ UNCHANGED <<snapshot, settings, draft, drafted, requests>>
    /\ UNCHANGED <<cacheVars, dupVars, fnVars, batchVars, runVars, tabVars>>

----------------------------------------------------------------------------
(* modelService.ts: the model catalogue cache *)

\* the providers whose catalogue the settings tab asks for in the model
CacheProviders == {"ollama", "anthropic"}

\* 60 * 60 * 1000 ms, counted in minutes
TTL == 60

\* Date.now() when the plugin starts, far more than one TTL after the epoch
StartTime == 100

\* the clock stops here
MaxTime == 161

\* how far the clock advances between two events
TickSteps == {30, 31}

\* sorted name lists a catalogue endpoint can answer with
ModelLists == {<<>>, <<"llama3">>, <<"llama3", "mistral">>}

\* the static list returned by queryAnthropicModels
AnthropicModels ==
    <<"claude-3-opus-20240229", "claude-3-sonnet-20240229", "claude-3-haiku-20240307",
      "claude-3-5-sonnet-20240620">>

\* messages of the errors a catalogue query can throw
QueryErrors == {"Failed to fetch", "Ollama API error (500): down"}

\* message of the error a failing saveSettings throws
SaveError == "EACCES: permission denied"

\* settings.cachedModels[provider] === undefined
NoEntry == [present |-> FALSE, models |-> <<>>, lastUpdated |-> 0, error |-> ""]

Includes(s, pat) == IndexOf(s, pat) > 0

getErrorMessage(message) ==
    LET m == toLowerCase(message)
    IN CASE Includes(m, "unauthorized") \/ Includes(m, "401") ->
                "Invalid API key. Please check your credentials."
         [] Includes(m, "forbidden") \/ Includes(m, "403") ->
                "Access denied. Please check your API key permissions."
         [] Includes(m, "not found") \/ Includes(m, "404") ->
                "API endpoint not found. Please check your configuration."
         [] Includes(m, "network") \/ Includes(m, "fetch") ->
                "Network error. Please check your internet connection."
         [] Includes(m, "timeout") -> "Request timed out. Please try again."
         [] Includes(m, "rate limit") \/ Includes(m, "429") ->
                "Rate limit exceeded. Please wait and try again."
         [] Includes(m, "server error") \/ Includes(m, "500") ->
                "Server error. Please try again later."
         [] OTHER -> message

getFallbackModels(provider) ==
    CASE provider = "openai" -> <<"gpt-4o", "gpt-4o-mini", "gpt-4-turbo", "gpt-4", "gpt-3.5-turbo">>
      [] provider = "anthropic" ->
            <<"claude-3-opus-20240229", "claude-3-sonnet-20240229", "claude-3-haiku-20240307">>
      [] provider = "google" -> <<"gemini-1.5-pro-latest", "gemini-1.5-flash-latest", "gemini-1.0-pro">>
      [] provider = "ollama" -> <<"llama3", "llama2", "mistral", "codellama", "phi3">>
      [] provider = "lmstudio" -> <<"llama-3", "mistral-7b", "codellama", "phi-3", "qwen2", "gemma2">>
      [] OTHER -> <<>>

\* the two revisions of modelService.ts whose getModels queries the catalogue
Revisions == {"modelService.ts", "part_016"}

\* the "final fallback": hardcoded names in modelService.ts, [] in part_016
finalFallback(rev, provider) ==
    IF rev = "part_016" THEN <<>> ELSE getFallbackModels(provider)

\* the outcomes of queryModels(provider): a list, or a thrown error
QueryOutcomes(provider) ==
    IF provider = "anthropic"
    THEN {[ok |-> TRUE, models |-> AnthropicModels, message |-> ""]}
    ELSE {[ok |-> TRUE, models |-> l, message |-> ""] : l \in ModelLists}
         \cup {[ok |-> FALSE, models |-> <<>>, message |-> e] : e \in QueryErrors}

\* the synchronous part of cacheModels: the entry is replaced
cacheModels(cache, provider, models, time) ==
    [cache EXCEPT ![provider] =
        [present |-> TRUE, models |-> models, lastUpdated |-> time, error |-> ""]]

\* cacheError that records the error over an emptied entry
cacheError_discardsList(cache, provider, error) ==
    [cache EXCEPT ![provider] =
        [present |-> TRUE, models |-> <<>>, lastUpdated |-> 0, error |-> error]]

\* the synchronous part of cacheError: models and timestamp of the entry are kept
cacheError(cache, provider, error) ==
    LET existing == cache[provider]
    IN [cache EXCEPT ![provider] =
           [present |-> TRUE,
            models |-> IF existing.present THEN existing.models ELSE <<>>,
            lastUpdated |-> IF existing.present /\ existing.lastUpdated # 0
                            THEN existing.lastUpdated ELSE 0,
            error |-> error]]

\* IsFreshEntry that takes an entry of exactly one hour for fresh
IsFreshEntry_inclusive(cached, time) ==
    LET oneHourAgo == time - TTL
    IN cached.present /\ cached.lastUpdated >= oneHourAgo /\ Len(cached.models) > 0

\* the test of getModels for "fresh cached data"
IsFreshEntry(cached, time) ==
    LET oneHourAgo == time - TTL
    IN cached.present /\ cached.lastUpdated > oneHourAgo /\ Len(cached.models) > 0

isLoading(provider) == modelLoadingState[provider]

\* the call of ModelService the model follows; one call is in progress at a time
IdleOp ==
    [kind |-> "none", provider |-> "", pc |-> "idle",
     cacheAtCall |-> [p \in CacheProviders |-> NoEntry],
     queryResult |-> "none", queried |-> <<>>, message |-> "",
     returned |-> <<>>, threw |-> FALSE]

CacheInit ==
    /\ revision \in Revisions
    /\ cachedModels = [p \in CacheProviders |-> NoEntry]
    /\ modelLoadingState = [p \in CacheProviders |-> FALSE]
    /\ now = StartTime
    /\ ops = IdleOp
    /\ catalogueRequests = [p \in CacheProviders |-> 0]

\* time passes between two calls (a call lasts seconds: every query is cut off
\* after 10 s, and the clock of the model moves in steps of half an hour)
Tick ==
    /\ ops.pc = "idle"
    /\ \E d \in TickSteps : now + d <= MaxTime /\ now' = now + d
    /\ UNCHANGED <<cachedModels, modelLoadingState, ops, catalogueRequests>>
    /\ UNCHANGED <<revision, genVars, dupVars, fnVars, batchVars, runVars, tabVars>>

\* the caller takes the result; the next call can start
Complete ==
    /\ ops.pc = "done"
    /\ ops' = IdleOp
    /\ catalogueRequests' = [p \in CacheProviders |-> 0]
    /\ UNCHANGED <<cachedModels, modelLoadingState, now>>
    /\ UNCHANGED <<revision, genVars, dupVars, fnVars, batchVars, runVars, tabVars>>

\* getModels(provider) up to its first await
GetModels(provider) ==
    /\ ops.pc = "idle"
    /\ LET cached == cachedModels[provider]
           call == [IdleOp EXCEPT !.kind = "getModels", !.provider = provider,
                                  !.cacheAtCall = cachedModels]
       IN IF IsFreshEntry(cached, now)
          THEN /\ ops' = [call EXCEPT !.pc = "done", !.returned = cached.models]
               /\ UNCHANGED catalogueRequests
          ELSE /\ ops' = [call EXCEPT !.pc = "query"]
               /\ catalogueRequests' = [catalogueRequests EXCEPT ![provider] = @ + 1]
    /\ UNCHANGED <<cachedModels, modelLoadingState, now>>
    /\ UNCHANGED <<revision, genVars, dupVars, fnVars, batchVars, runVars, tabVars>>

\* lines 45-51 of getModels: the list of `cached`, the entry read when the call
\* started, else the final fallback
GetModelsFallback(op) ==
    LET cached == op.cacheAtCall[op.provider]
    IN IF cached.present /\ Len(cached.models) > 0
       THEN cached.models
       ELSE finalFallback(revision, op.provider)

\* the catalogue query of getModels settles
GetModelsQueryReturns(r) ==
    /\ ops.kind = "getModels" /\ ops.pc = "query"
    /\ r \in QueryOutcomes(ops.provider)
    /\ LET op == [ops EXCEPT !.queryResult = IF r.ok THEN "ok" ELSE "failed",
                             !.queried = r.models,
                             !.message = IF r.ok THEN "" ELSE getErrorMessage(r.message)]
       IN IF r.ok
          THEN IF Len(r.models) > 0
               THEN /\ cachedModels' = cacheModels(cachedModels, ops.provider, r.models, now)
                    /\ ops' = [op EXCEPT !.pc = "saveModels"]
               ELSE /\ ops' = [op EXCEPT !.pc = "done", !.returned = GetModelsFallback(op)]
                    /\ UNCHANGED cachedModels
          ELSE /\ cachedModels' = cacheError(cachedModels, ops.provider, getErrorMessage(r.message))
               /\ ops' = [op EXCEPT !.pc = "saveError"]
    /\ UNCHANGED <<modelLoadingState, now, catalogueRequests>>
    /\ UNCHANGED <<revision, genVars, dupVars, fnVars, batchVars, runVars, tabVars>>

\* the saveSettings awaited by cacheModels inside getModels settles
GetModelsSaveModelsReturns(saved) ==
    /\ ops.kind = "getModels" /\ ops.pc = "saveModels"
    /\ IF saved
       THEN /\ ops' = [ops EXCEPT !.pc = "done", !.returned = ops.queried]
            /\ UNCHANGED cachedModels
       ELSE /\ cachedModels' = cacheError(cachedModels, ops.provider, getErrorMessage(SaveError))
            /\ ops' = [ops EXCEPT !.pc = "saveError"]
    /\ UNCHANGED <<modelLoadingState, now, catalogueRequests>>
    /\ UNCHANGED <<revision, genVars, dupVars, fnVars, batchVars, runVars, tabVars>>

\* the saveSettings awaited by cacheError inside getModels settles
GetModelsSaveErrorReturns(saved) ==
    /\ ops.kind = "getModels" /\ ops.pc = "saveError"
    /\ IF saved
       THEN ops' = [ops EXCEPT !.pc = "done", !.returned = GetModelsFallback(ops)]
       ELSE ops' = [ops EXCEPT !.pc = "done", !.threw = TRUE]
    /\ UNCHANGED <<cachedModels, modelLoadingState, now, catalogueRequests>>
    /\ UNCHANGED <<revision, genVars, dupVars, fnVars, batchVars, runVars, tabVars>>

\* refreshModels(provider) up to its first await: the loading flag is raised
RefreshModels(provider) ==
    /\ ops.pc = "idle"
    /\ modelLoadingState' = [modelLoadingState EXCEPT ![provider] = TRUE]
    /\ ops' = [IdleOp EXCEPT !.kind = "refreshModels", !.provider = provider,
                             !.cacheAtCall = cachedModels, !.pc = "saveLoading"]
    /\ UNCHANGED <<cachedModels, now, catalogueRequests>>
    /\ UNCHANGED <<revision, genVars, dupVars, fnVars, batchVars, runVars, tabVars>>

\* the saveSettings awaited before the try block settles
RefreshSaveLoadingReturns(saved) ==
    /\ ops.kind = "refreshModels" /\ ops.pc = "saveLoading"
    /\ IF saved
       THEN /\ ops' = [ops EXCEPT !.pc = "query"]
            /\ catalogueRequests' = [catalogueRequests EXCEPT ![ops.provider] = @ + 1]
       ELSE /\ ops' = [ops EXCEPT !.pc = "done", !.threw = TRUE]
            /\ UNCHANGED catalogueRequests
    /\ UNCHANGED <<cachedModels, modelLoadingState, now>>
    /\ UNCHANGED <<revision, genVars, dupVars, fnVars, batchVars, runVars, tabVars>>

\* the catalogue query of refreshModels settles
RefreshQueryReturns(r) ==
    /\ ops.kind = "refreshModels" /\ ops.pc = "query"
    /\ r \in QueryOutcomes(ops.provider)
    /\ LET op == [ops EXCEPT !.queryResult = IF r.ok THEN "ok" ELSE "failed",
                             !.queried = r.models,
                             !.message = IF r.ok THEN "" ELSE getErrorMessage(r.message)]
       IN IF r.ok
          THEN /\ cachedModels' = cacheModels(cachedModels, ops.provider, r.models, now)
               /\ ops' = [op EXCEPT !.pc = "saveModels"]
          ELSE /\ cachedModels' = cacheError(cachedModels, ops.provider, getErrorMessage(r.message))
               /\ ops' = [op EXCEPT !.pc = "saveError"]
    /\ UNCHANGED <<modelLoadingState, now, catalogueRequests>>
    /\ UNCHANGED <<revision, genVars, dupVars, fnVars, batchVars, runVars, tabVars>>

\* the finally block of refreshModels up to its await
RefreshFinally(op) ==
    /\ modelLoadingState' = [modelLoadingState EXCEPT ![op.provider] = FALSE]
    /\ ops' = [op EXCEPT !.pc = "saveFinally"]

\* the saveSettings awaited by cacheModels inside refreshModels settles
RefreshSaveModelsReturns(saved) ==
    /\ ops.kind = "refreshModels" /\ ops.pc = "saveModels"
    /\ IF saved
       THEN /\ RefreshFinally([ops EXCEPT !.returned = ops.queried])
            /\ UNCHANGED cachedModels
       ELSE /\ cachedModels' = cacheError(cachedModels, ops.provider, getErrorMessage(SaveError))
            /\ ops' = [ops EXCEPT !.pc = "saveError"]
            /\ UNCHANGED modelLoadingState
    /\ UNCHANGED <<now, catalogueRequests>>
    /\ UNCHANGED <<revision, genVars, dupVars, fnVars, batchVars, runVars, tabVars>>

\* the saveSettings awaited by cacheError inside the catch block settles
RefreshSaveErrorReturns(saved) ==
    /\ ops.kind = "refreshModels" /\ ops.pc = "saveError"
    /\ IF saved
       THEN RefreshFinally([ops EXCEPT !.returned = finalFallback(revision, ops.provider)])
       ELSE RefreshFinally([ops EXCEPT !.threw = TRUE])
    /\ UNCHANGED <<cachedModels, now, catalogueRequests>>
    /\ UNCHANGED <<revision, genVars, dupVars, fnVars, batchVars, runVars, tabVars>>

\* the saveSettings awaited in the finally block settles; the call completes
RefreshSaveFinallyReturns(saved) ==
    /\ ops.kind = "refreshModels" /\ ops.pc = "saveFinally"
    /\ ops' = [ops EXCEPT !.pc = "done", !.threw = ops.threw \/ ~saved]
    /\ UNCHANGED <<cachedModels, modelLoadingState, now, catalogueRequests>>
    /\ UNCHANGED <<revision, genVars, dupVars, fnVars, batchVars, runVars, tabVars>>

----------------------------------------------------------------------------
(* utils.ts: duplicate title detection and removal *)

\* constants.ts is not among the sources. The thresholds are percentages with
\* strict above normal above loose and the exact-match threshold above normal;
\* the plain-text window and the blank-line limit are small numbers
DUPLICATE_CONFIG ==
    [SIMILARITY_THRESHOLDS |-> [strict |-> 95, normal |-> 80, loose |-> 60],
     EXACT_MATCH_THRESHOLD |-> 95,
     PLAIN_TEXT_SCAN_LINES |-> 3,
     MAX_CONSECUTIVE_EMPTY_LINES |-> 2]

\* line.match(DUPLICATE_CONFIG.MARKDOWN_HEADER_PATTERN) for a trimmed line: <<>>
\* for null, else <<whole match, the run of 1..6 '#', the text after the space>>
MARKDOWN_HEADER_PATTERN(line) ==
    LET rest == StripLeading(line, {"#"})
        hashes == Len(line) - Len(rest)
    IN IF hashes \in 1..6 /\ Len(rest) > 0 /\ IsSpaceChar(CharAt(rest, 1)) /\ Trim(rest) # ""
       THEN <<line, SliceTo(line, hashes), TrimStart(rest)>>
       ELSE <<>>

\* the characters \w matches
WordChars == LowerLetters \o UpperLetters \o "0123456789_"

\* s.replace(/[^\w\s]/g, '')
RECURSIVE RemovePunctuation(_)
RemovePunctuation(s) ==
    IF s = "" THEN ""
    ELSE LET c == CharAt(s, 1)
         IN (IF IndexOf(WordChars, c) > 0 \/ IsSpaceChar(c) THEN c ELSE "")
            \o RemovePunctuation(Tail(s))

normalizeTitleForComparison(t) ==
    Trim(CollapseSpaces(RemovePunctuation(toLowerCase(t))))

\* the loop over j for one i: `row` holds matrix[i][0 .. Len(row) - 1], `prev`
\* is matrix[i - 1], c is str1[i - 1]
RECURSIVE levenshteinRow(_, _, _, _)
levenshteinRow(prev, c, str2, row) ==
    LET j == Len(row)
    IN IF j > Len(str2) THEN row
       ELSE LET cost == IF c = CharAt(str2, j) THEN 0 ELSE 1
                cell == Min({prev[j + 1] + 1, row[j] + 1, prev[j] + cost})
            IN levenshteinRow(prev, c, str2, Append(row, cell))

\* the loop over i from row i on, `prev` being matrix[i - 1]
RECURSIVE levenshteinRows(_, _, _, _)
levenshteinRows(str1, str2, i, prev) ==
    IF i > Len(str1) THEN prev
    ELSE levenshteinRows(str1, str2, i + 1, levenshteinRow(prev, CharAt(str1, i), str2, <<i>>))

levenshteinDistance(str1, str2) ==
    levenshteinRows(str1, str2, 1, [j \in 1..(Len(str2) + 1) |-> j - 1])[Len(str2) + 1]

\* the similarity 1 - distance / maxLength as the fraction num / den
calculateTitleSimilarity(title1, title2) ==
    LET normalized1 == normalizeTitleForComparison(title1)
        normalized2 == normalizeTitleForComparison(title2)
    IN IF normalized1 = normalized2 THEN [num |-> 1, den |-> 1]
       ELSE IF Len(normalized1) = 0 \/ Len(normalized2) = 0 THEN [num |-> 0, den |-> 1]
       ELSE LET distance == levenshteinDistance(normalized1, normalized2)
                maxLength == Max({Len(normalized1), Len(normalized2)})
            IN [num |-> maxLength - distance, den |-> maxLength]

\* similarity >= threshold, the threshold a percentage
AtLeast(similarity, threshold) == similarity.num * 100 >= threshold * similarity.den

\* s.split('\n')
RECURSIVE Split(_)
Split(s) ==
    LET i == IndexOf(s, "\n")
    IN IF i = 0 THEN <<s>> ELSE <<SliceTo(s, i - 1)>> \o Split(SliceFrom(s, i))

\* lines.join('\n')
RECURSIVE Join(_)
Join(lines) ==
    IF lines = <<>> THEN ""
    ELSE IF Len(lines) = 1 THEN lines[1]
    ELSE lines[1] \o "\n" \o Join(Tail(lines))

\* one pass of the loop of detectTitleInContent: the matches pushed for the
\* line at lineIndex (counted from 0)
MatchesOfLine(generatedTitle, noteContent, lines, lineIndex, threshold) ==
    LET line == Trim(lines[lineIndex + 1])
        headerMatch == MARKDOWN_HEADER_PATTERN(line)
        compared == IF headerMatch # <<>> THEN Trim(headerMatch[3]) ELSE line
        similarity == calculateTitleSimilarity(generatedTitle, compared)
        startIndex == IndexOf(noteContent, line) - 1
        match == [startIndex |-> startIndex,
                  endIndex |-> startIndex + Len(line),
                  matchedText |-> line,
                  similarity |-> similarity,
                  lineNumber |-> lineIndex + 1,
                  isMarkdownHeader |-> headerMatch # <<>>,
                  headerLevel |-> IF headerMatch # <<>> THEN Len(headerMatch[2]) ELSE 0]
    IN IF line = "" THEN <<>>
       ELSE IF headerMatch # <<>>
            THEN IF AtLeast(similarity, threshold) THEN <<match>> ELSE <<>>
            ELSE IF lineIndex < DUPLICATE_CONFIG.PLAIN_TEXT_SCAN_LINES
                    /\ AtLeast(similarity, threshold)
                 THEN <<match>> ELSE <<>>

\* the loop of detectTitleInContent from lineIndex on
RECURSIVE MatchesFrom(_, _, _, _, _)
MatchesFrom(generatedTitle, noteContent, lines, lineIndex, threshold) ==
    IF lineIndex >= Len(lines) THEN <<>>
    ELSE MatchesOfLine(generatedTitle, noteContent, lines, lineIndex, threshold)
         \o MatchesFrom(generatedTitle, noteContent, lines, lineIndex + 1, threshold)

\* [...matches].sort((a, b) => b.startIndex - a.startIndex): descending start
\* index, matches of equal start index in their order in `matches`
RECURSIVE SortByStartIndexDesc(_)
SortByStartIndexDesc(ms) ==
    IF ms = <<>> THEN <<>>
    ELSE LET sorted == SortByStartIndexDesc(SubSeq(ms, 1, Len(ms) - 1))
             m == ms[Len(ms)]
             k == Cardinality({i \in 1..Len(sorted) : sorted[i].startIndex >= m.startIndex})
         IN SubSeq(sorted, 1, k) \o <<m>> \o SubSeq(sorted, k + 1, Len(sorted))

\* the loop `for (const match of sortedMatches)`: lines.splice(lineIndex, 1)
RECURSIVE SpliceMatches(_, _)
SpliceMatches(lines, sortedMatches) ==
    IF sortedMatches = <<>> THEN lines
    ELSE LET lineIndex == Head(sortedMatches).lineNumber - 1
             spliced == IF lineIndex >= 0 /\ lineIndex < Len(lines)
                        THEN SubSeq(lines, 1, lineIndex) \o SubSeq(lines, lineIndex + 2, Len(lines))
                        ELSE lines
         IN SpliceMatches(spliced, Tail(sortedMatches))

\* '\n'.repeat(n)
RECURSIVE RepeatNewline(_)
RepeatNewline(n) == IF n <= 0 THEN "" ELSE "\n" \o RepeatNewline(n - 1)

\* s.replace(new RegExp(`\\n{${max + 1},}`, 'g'), '\n'.repeat(max))
RECURSIVE LimitNewlineRuns(_, _)
LimitNewlineRuns(s, max) ==
    IF s = "" THEN ""
    ELSE IF CharAt(s, 1) = "\n"
         THEN LET rest == StripLeading(s, {"\n"})
                  run == Len(s) - Len(rest)
              IN RepeatNewline(IF run > max THEN max ELSE run) \o LimitNewlineRuns(rest, max)
         ELSE CharAt(s, 1) \o LimitNewlineRuns(Tail(s), max)

\* removeDuplicatesFromContent with DUPLICATE_CONFIG bound to the constants
RemovedContent(content, matches) ==
    IF Len(matches) = 0 THEN content
    ELSE LET sortedMatches == SortByStartIndexDesc(matches)
             lines == SpliceMatches(Split(content), sortedMatches)
             joined == StripLeading(Join(lines), {"\n"})
         IN LimitNewlineRuns(joined, DUPLICATE_CONFIG.MAX_CONSECUTIVE_EMPTY_LINES)

\* removeDuplicatesFromContent: utils.ts declares DUPLICATE_CONFIG only inside
\* detectTitleInContent and shouldRemoveMatch, so line 321 reads a name that is
\* bound only if the bundle supplies it; otherwise the read is a ReferenceError
removeDuplicatesFromContent(content, matches, inScope) ==
    IF Len(matches) = 0 \/ inScope
    THEN [threw |-> FALSE, content |-> RemovedContent(content, matches)]
    ELSE [threw |-> TRUE, content |-> ""]

\* the value of detectTitleInContent, or the error thrown while it computes
\* contentWithoutDuplicates
detectTitleInContent(generatedTitle, noteContent, sens, inScope) ==
    LET threshold == DUPLICATE_CONFIG.SIMILARITY_THRESHOLDS[sens]
        matches == MatchesFrom(generatedTitle, noteContent, Split(noteContent), 0, threshold)
        cleaned == removeDuplicatesFromContent(noteContent, matches, inScope)
    IN [threw |-> cleaned.threw,
        found |-> Len(matches) > 0,
        matches |-> matches,
        totalMatches |-> Len(matches),
        contentWithoutDuplicates |->
            IF Len(matches) > 0 /\ ~cleaned.threw THEN cleaned.content ELSE ""]

shouldRemoveMatch(match, onlyExactMatches) ==
    IF onlyExactMatches
    THEN AtLeast(match.similarity, DUPLICATE_CONFIG.EXACT_MATCH_THRESHOLD)
    ELSE AtLeast(match.similarity, DUPLICATE_CONFIG.SIMILARITY_THRESHOLDS.normal)

\* detectionResult.matches.filter(match => shouldRemoveMatch(match, onlyExact))
RECURSIVE FilterMatches(_, _)
FilterMatches(ms, onlyExactMatches) ==
    IF ms = <<>> THEN <<>>
    ELSE (IF shouldRemoveMatch(Head(ms), onlyExactMatches) THEN <<Head(ms)>> ELSE <<>>)
         \o FilterMatches(Tail(ms), onlyExactMatches)

----------------------------------------------------------------------------
(* duplicate detection: inputs and steps of a run, as main.ts drives them *)

\* the first line of a note and the lines added to it: headers and plain lines that restate the title,
\* a near match, body text and a blank line
DocLines == {"# My Note", "My Note", "## my note!", "My Notes", "body text", ""}

\* whole notes: blank lines between paragraphs further down, and a header
\* that resembles the title only loosely
SampleNotes == {"# My Note\nbody text\n\n\nbody text", "# My Notebook"}

\* generated titles
Titles == {"My Note"}

\* a note has at most this many lines
MaxLines == 3

Sensitivities == {"strict", "normal", "loose"}

\* no detection has run
NoDetection ==
    [threw |-> FALSE, found |-> FALSE, matches |-> <<>>, totalMatches |-> 0,
     contentWithoutDuplicates |-> ""]

\* no removal has run
NoRemoval == [threw |-> FALSE, content |-> ""]

DupInit ==
    /\ docContent \in DocLines \cup SampleNotes
    /\ docTitle \in Titles
    /\ sensitivity \in Sensitivities
    /\ configInScope \in BOOLEAN
    /\ detection = NoDetection
    /\ toRemove = <<>>
    /\ removed = NoRemoval
    /\ dpc = "idle"

\* the user adds a line to the note
EditNote(l) ==
    /\ dpc = "idle"
    /\ Len(Split(docContent)) < MaxLines
    /\ docContent' = docContent \o "\n" \o l
    /\ UNCHANGED <<docTitle, sensitivity, configInScope, detection, toRemove, removed, dpc>>
    /\ UNCHANGED <<genVars, cacheVars, fnVars, batchVars, runVars, tabVars>>

\* handleDuplicateTitles up to the test of detectionResult.found
Detect ==
    /\ dpc = "idle"
    /\ LET detectionResult ==
               detectTitleInContent(docTitle, docContent, sensitivity, configInScope)
       IN /\ detection' = detectionResult
          /\ dpc' = IF detectionResult.threw THEN "failed"
                    ELSE IF detectionResult.found THEN "detected" ELSE "clean"
    /\ UNCHANGED <<docContent, docTitle, sensitivity, configInScope, toRemove, removed>>
    /\ UNCHANGED <<genVars, cacheVars, fnVars, batchVars, runVars, tabVars>>

\* handleDuplicateTitles from the filter on: the matches that meet the removal
\* policy are removed (removeOnlyExactMatches makes the sensitivity strict)
Remove(removeOnlyExactMatches) ==
    /\ dpc = "detected"
    /\ removeOnlyExactMatches => sensitivity = "strict"
    /\ LET matchesToRemove == FilterMatches(detection.matches, removeOnlyExactMatches)
       IN /\ toRemove' = matchesToRemove
          /\ IF Len(matchesToRemove) = 0
             THEN removed' = NoRemoval /\ dpc' = "kept"
             ELSE /\ removed' = removeDuplicatesFromContent(docContent, matchesToRemove,
                                                            configInScope)
                  /\ dpc' = "removed"
    /\ UNCHANGED <<docContent, docTitle, sensitivity, configInScope, detection>>
    /\ UNCHANGED <<genVars, cacheVars, fnVars, batchVars, runVars, tabVars>>

\* the run ends; content returned as modified is written to the note
Close ==
    /\ dpc \in {"failed", "clean", "detected", "kept", "removed"}
    /\ docContent' = IF dpc = "removed" /\ ~removed.threw THEN removed.content ELSE docContent
    /\ detection' = NoDetection
    /\ toRemove' = <<>>
    /\ removed' = NoRemoval
    /\ dpc' = "idle"
    /\ UNCHANGED <<docTitle, sensitivity, configInScope>>
    /\ UNCHANGED <<genVars, cacheVars, fnVars, batchVars, runVars, tabVars>>

----------------------------------------------------------------------------
(* pure helper functions, applied to inputs drawn from bounded sets *)

\* longest input, in tokens
MaxTokens == 4

\* the strings of at most n tokens of T
RECURSIVE Words(_, _)
Words(T, n) ==
    IF n = 0 THEN {""}
    ELSE LET shorter == Words(T, n - 1)
         IN shorter \cup {w \o t : w \in shorter, t \in T}

\* a letter, the characters sanitizeFilename treats specially, a control code
SanitizeTokens == {"a", " ", ".", "/", "\t"}

\* letters of both cases, whitespace and punctuation
SimilarityTokens == {"a", "B", " ", "#"}

\* the second title of a comparison
OtherTitles == {"", "a", "ab", "A  b", "#", "# Setup Guide"}

\* the thinking markers, a word, and what the response cleaners look for
CleanTokens == {"<think>", "</think>", "Ab", " ", "Title:", "'", "\n", "-"}

\* responses of backends that print their reasoning
ThinkingResponses ==
    {"<think>Hello World</think>",
     "<think>about cats</think>Two Kitties",
     "<think>a</think>Big<think>b</think>"}

\* the titles compared by calculateTitleSimilarity
TitleInputs ==
    Words(SanitizeTokens, MaxTokens) \cup Words(SimilarityTokens, MaxTokens)
        \cup {"Setup Guide", "abc def ghi"}

\* `new Error(message)` as the plugin throws or receives it; `class` records
\* what kind of failure the error stands for, 0 stands for no status code
RawError(class, message) ==
    [class |-> class, instance |-> "Error", code |-> "", statusCode |-> 0, message |-> message]

\* new TitleGeneratorError(message, code, userMessage, provider, statusCode, context)
TitleGeneratorError(class, message, code, statusCode) ==
    [class |-> class, instance |-> "TitleGeneratorError", code |-> code,
     statusCode |-> statusCode, message |-> message]

\* the raw errors of the backend calls: rejected requests, aborted requests,
\* status codes other than 2xx, missing credentials
RawErrors ==
    {RawError("network", "Failed to fetch"),
     RawError("network", "Network request failed"),
     RawError("timeout", "Request timed out. Please check your internet connection."),
     RawError("timeout", "Request timeout"),
     RawError("api", "OpenAI API error (429): Too Many Requests"),
     RawError("api", "OpenAI API error (500): Internal Server Error"),
     RawError("api", "OpenAI API error (503): Service Unavailable"),
     RawError("api", "OpenAI API error (400): Bad Request"),
     RawError("configuration", "OpenAI API key is not set."),
     RawError("validation", "Invalid maxTitleLength")}

\* the status code an API error message carries
StatusOf(message) ==
    CASE Includes(message, "(429)") -> 429
      [] Includes(message, "(500)") -> 500
      [] Includes(message, "(503)") -> 503
      [] Includes(message, "(400)") -> 400
      [] OTHER -> 0

createConfigurationError(message) ==
    TitleGeneratorError("configuration", message, "CONFIGURATION_ERROR", 0)

createApiError(message, statusCode) ==
    TitleGeneratorError("api", message, "API_ERROR", statusCode)

createValidationError(message) ==
    TitleGeneratorError("validation", message, "VALIDATION_ERROR", 0)

\* processError on a raw error: the code is chosen from the message
processError(error) ==
    LET errorMessage == toLowerCase(error.message)
        made(code, statusCode) ==
            TitleGeneratorError(error.class, error.message, code, statusCode)
    IN CASE Includes(errorMessage, "api key") -> made("API_KEY_ERROR", 0)
         [] OTHER ->
       CASE Includes(errorMessage, "unauthorized") \/ Includes(errorMessage, "401") ->
                made("UNAUTHORIZED", 401)
         [] OTHER ->
       CASE Includes(errorMessage, "forbidden") \/ Includes(errorMessage, "403") ->
                made("FORBIDDEN", 403)
         [] OTHER ->
       CASE Includes(errorMessage, "rate limit") \/ Includes(errorMessage, "429") ->
                made("RATE_LIMIT", 429)
         [] OTHER ->
       CASE Includes(errorMessage, "timeout") -> made("TIMEOUT", 0)
         [] OTHER ->
       CASE Includes(errorMessage, "network") \/ Includes(errorMessage, "fetch") ->
                made("NETWORK_ERROR", 0)
         [] OTHER ->
       CASE Includes(errorMessage, "server error") \/ Includes(errorMessage, "500") ->
                made("SERVER_ERROR", 500)
         [] OTHER -> made("UNKNOWN_ERROR", 0)

\* the errors isRetryableError can be asked about
Errors ==
    RawErrors
        \cup {processError(e) : e \in RawErrors}
        \cup {createApiError(e.message, StatusOf(e.message)) : e \in {r \in RawErrors : r.class = "api"}}
        \cup {createConfigurationError(e.message) : e \in {r \in RawErrors : r.class = "configuration"}}
        \cup {createValidationError(e.message) : e \in {r \in RawErrors : r.class = "validation"}}

ErrorMessages == {e.message : e \in RawErrors}

NoError == RawError("", "")

FnInputs ==
    TitleInputs \cup Words(CleanTokens, MaxTokens) \cup ThinkingResponses
        \cup ErrorMessages

NoOutput ==
    [text |-> "", other |-> "", num |-> 0, den |-> 1, error |-> NoError, retryable |-> FALSE,
     maxLength |-> 0]

FnInit ==
    /\ fnInput \in FnInputs
    /\ fnName = "none"
    /\ fnOutput = NoOutput

\* sanitizeFilename(fnInput)
ApplySanitizeFilename ==
    /\ fnName = "none"
    /\ fnName' = "sanitizeFilename"
    /\ fnOutput' = [NoOutput EXCEPT !.text = sanitizeFilename(fnInput)]
    /\ UNCHANGED fnInput
    /\ UNCHANGED <<genVars, cacheVars, dupVars, batchVars, runVars, tabVars>>

\* calculateTitleSimilarity(fnInput, title2)
ApplyCalculateTitleSimilarity(title2) ==
    /\ fnName = "none"
    /\ fnInput \in TitleInputs
    /\ fnName' = "calculateTitleSimilarity"
    /\ LET similarity == calculateTitleSimilarity(fnInput, title2)
       IN fnOutput' = [NoOutput EXCEPT !.other = title2,
                                       !.num = similarity.num, !.den = similarity.den]
    /\ UNCHANGED fnInput
    /\ UNCHANGED <<genVars, cacheVars, dupVars, batchVars, runVars, tabVars>>

\* the prefixes of /^(Title:|...|Here's the title:|Sure, here|I'll|I would|Based on)/i
FillerPrefixes == LabelPrefixes \o <<"sure, here", "i'll", "i would", "based on">>

StartsWithFiller(line) ==
    \E k \in 1..Len(FillerPrefixes) :
        toLowerCase(SliceTo(line, Len(FillerPrefixes[k]))) = FillerPrefixes[k]

\* cleanAIResponse of the second snapshot in part_019 (lines 694-742): a
\* response wrapped in one marker pair is unwrapped, other blocks are deleted
cleanAIResponse_unwrapping(response) ==
    IF response = "" THEN ""
    ELSE LET trimmed == Trim(response)
             n == Len(trimmed)
             thinkMatch == /\ n > 15
                           /\ SliceTo(trimmed, 7) = "<think>"
                           /\ SubSeq(trimmed, n - 7, n) = "</think>"
             textToClean == IF thinkMatch THEN Trim(SubSeq(trimmed, 8, n - 8)) ELSE trimmed
             withoutBlocks == Trim(ReplaceRegions(textToClean, "<think>", "</think>", ""))
             split == Split(withoutBlocks)
             lines == SelectSeq([k \in 1..Len(split) |-> Trim(split[k])],
                                LAMBDA line : Len(line) > 0)
             good == {k \in 1..Len(lines) : ~StartsWithFiller(lines[k])}
             bestCandidate == IF good # {} THEN lines[Min(good)]
                              ELSE IF Len(lines) > 0 THEN lines[1] ELSE ""
             finalTitle == RemoveChars(StripLabelPrefix(bestCandidate), {"\"", "'"})
         IN Trim(finalTitle)

\* the two versions of the private method cleanAIResponse in part_019
CleanerVersions == {"part_019:350", "part_019:694"}

CleanedBy(version, response) ==
    IF version = "part_019:350" THEN cleanAIResponse(response)
    ELSE cleanAIResponse_unwrapping(response)

\* cleanAIResponse(fnInput)
ApplyCleanAIResponse(version) ==
    /\ fnName = "none"
    /\ fnName' = "cleanAIResponse"
    /\ fnOutput' = [NoOutput EXCEPT !.other = version, !.text = CleanedBy(version, fnInput)]
    /\ UNCHANGED fnInput
    /\ UNCHANGED <<genVars, cacheVars, dupVars, batchVars, runVars, tabVars>>

isRetryableError(error) ==
    IF error.instance = "TitleGeneratorError"
    THEN error.code \in {"TIMEOUT", "NETWORK_ERROR", "RATE_LIMIT", "SERVER_ERROR"}
    ELSE LET message == toLowerCase(error.message)
         IN \/ Includes(message, "timeout")
            \/ Includes(message, "network")
            \/ Includes(message, "rate limit")
            \/ Includes(message, "server error")

\* isRetryableError(error) for an error with the message fnInput
ApplyIsRetryableError(error) ==
    /\ fnName = "none"
    /\ fnInput = error.message
    /\ fnName' = "isRetryableError"
    /\ fnOutput' = [NoOutput EXCEPT !.error = error, !.retryable = isRetryableError(error)]
    /\ UNCHANGED fnInput
    /\ UNCHANGED <<genVars, cacheVars, dupVars, batchVars, runVars, tabVars>>

\* the limits a title is cut to
TruncateLimits == {1, 2, 3, 7}

\* truncateTitle(fnInput, maxLength)
ApplyTruncateTitle(maxLength) ==
    /\ fnName = "none"
    /\ fnInput \in TitleInputs
    /\ fnName' = "truncateTitle"
    /\ fnOutput' = [NoOutput EXCEPT !.maxLength = maxLength,
                                    !.text = truncateTitle(fnInput, maxLength)]
    /\ UNCHANGED fnInput
    /\ UNCHANGED <<genVars, cacheVars, dupVars, batchVars, runVars, tabVars>>

\* every opening marker of s is followed by its closing marker before the
\* next opening marker, and no closing marker stands alone
RECURSIVE MarkersPaired(_)
MarkersPaired(s) ==
    LET open == IndexOf(s, "<think>")
        close == IndexOf(s, "</think>")
        next == IF open = 0 THEN 0 ELSE IndexOfFrom(s, "<think>", open + 7)
    IN IF open = 0 THEN close = 0
       ELSE /\ close > open
            /\ next = 0 \/ next > close
            /\ MarkersPaired(SliceFrom(s, close + 7))

----------------------------------------------------------------------------
(* main.ts: generateTitlesForMultipleFiles *)

\* longest file list
MaxFiles == 3

\* the awaits of generateTitleForFile and processSingleFile
RequestSteps == {"draftRequest", "refineRequest"}

BatchInit ==
    /\ files \in 1..MaxFiles
    /\ enableDuplicateRemoval \in BOOLEAN
    /\ fileStep = [i \in 1..files |-> "waiting"]
    /\ fileResult = [i \in 1..files |-> "none"]
    /\ started = <<>>
    /\ processed = 0
    /\ succeeded = 0
    /\ failed = 0

\* a loop that starts every file without awaiting the one before
LoopReaches_all(i) == i \in 1..files

\* `for (const file of files)` with the awaited body: the loop is at file i
\* when the finally block has run for the i - 1 files before it
LoopReaches(i) == i \in 1..files /\ i = processed + 1

\* processing of file i goes on to its next await
Await(i, step) ==
    /\ fileStep' = [fileStep EXCEPT ![i] = step]
    /\ UNCHANGED <<fileResult, processed, succeeded, failed>>

\* generateTitleForFile(file) has returned, which it does however the file
\* ended, its catch block taking every error: succeeded++, then the finally block
Finished(i, how) ==
    /\ fileStep' = [fileStep EXCEPT ![i] = "done"]
    /\ fileResult' = [fileResult EXCEPT ![i] = how]
    /\ succeeded' = succeeded + 1
    /\ failed' = failed
    /\ processed' = processed + 1

\* the loop body begins for file i: await this.app.vault.cachedRead(file)
StartFile(i) ==
    /\ LoopReaches(i)
    /\ fileStep[i] = "waiting"
    /\ started' = Append(started, i)
    /\ Await(i, "cachedRead")
    /\ UNCHANGED <<files, enableDuplicateRemoval>>
    /\ UNCHANGED <<genVars, cacheVars, dupVars, fnVars, runVars, tabVars>>

\* cachedRead settles; processSingleFile up to the draft request of generateTitle
ReadReturns(i, content) ==
    /\ i \in 1..files
    /\ fileStep[i] = "cachedRead"
    /\ CASE content = "throws" -> Finished(i, "failed")
         [] content = "blank" -> Finished(i, "empty")
         [] content = "misconfigured" -> Finished(i, "noTitle")
         [] OTHER -> Await(i, "draftRequest")
    /\ UNCHANGED <<files, enableDuplicateRemoval, started>>
    /\ UNCHANGED <<genVars, cacheVars, dupVars, fnVars, runVars, tabVars>>

\* processSingleFile from the title to its next await: duplicate handling when
\* enabled, else the rename when the path changes
AfterTitle(i, samePath) ==
    IF enableDuplicateRemoval THEN Await(i, "handleDuplicateTitles")
    ELSE IF samePath THEN Finished(i, "unchanged")
    ELSE Await(i, "renameFile")

\* the draft request settles
DraftReturns(i, answer, samePath) ==
    /\ i \in 1..files
    /\ fileStep[i] = "draftRequest"
    /\ CASE answer = "fails" -> Finished(i, "noTitle")
         [] answer = "tooLong" -> Await(i, "refineRequest")
         [] OTHER -> AfterTitle(i, samePath)
    /\ UNCHANGED <<files, enableDuplicateRemoval, started>>
    /\ UNCHANGED <<genVars, cacheVars, dupVars, fnVars, runVars, tabVars>>

\* the refinement request settles
RefineReturns(i, answer, samePath) ==
    /\ i \in 1..files
    /\ fileStep[i] = "refineRequest"
    /\ IF answer = "fails" THEN Finished(i, "noTitle") ELSE AfterTitle(i, samePath)
    /\ UNCHANGED <<files, enableDuplicateRemoval, started>>
    /\ UNCHANGED <<genVars, cacheVars, dupVars, fnVars, runVars, tabVars>>

\* handleDuplicateTitles returns, with or without the confirmation dialog
DuplicatesReturn(i, contentModified, samePath) ==
    /\ i \in 1..files
    /\ fileStep[i] = "handleDuplicateTitles"
    /\ IF samePath
       THEN IF contentModified THEN Await(i, "modify") ELSE Finished(i, "unchanged")
       ELSE Await(i, IF contentModified THEN "renameFileThenModify" ELSE "renameFile")
    /\ UNCHANGED <<files, enableDuplicateRemoval, started>>
    /\ UNCHANGED <<genVars, cacheVars, dupVars, fnVars, runVars, tabVars>>

\* fileManager.renameFile settles
RenameReturns(i, ok) ==
    /\ i \in 1..files
    /\ fileStep[i] \in {"renameFile", "renameFileThenModify"}
    /\ IF ~ok THEN Finished(i, "failed")
       ELSE IF fileStep[i] = "renameFile" THEN Finished(i, "renamed")
       ELSE Await(i, "modifyRenamed")
    /\ UNCHANGED <<files, enableDuplicateRemoval, started>>
    /\ UNCHANGED <<genVars, cacheVars, dupVars, fnVars, runVars, tabVars>>

\* vault.modify settles
ModifyReturns(i, ok) ==
    /\ i \in 1..files
    /\ fileStep[i] \in {"modify", "modifyRenamed"}
    /\ IF ~ok THEN Finished(i, "failed")
       ELSE Finished(i, IF fileStep[i] = "modify" THEN "unchanged" ELSE "renamed")
    /\ UNCHANGED <<files, enableDuplicateRemoval, started>>
    /\ UNCHANGED <<genVars, cacheVars, dupVars, fnVars, runVars, tabVars>>

----------------------------------------------------------------------------
(* main.ts: processSingleFile, runs that overlap in one folder *)

\* the runs of processSingleFile, each on a file of its own
Runs == {1, 2}

\* sanitizedTitle of a run; "" stands for an empty newTitle
SanitizedTitles == {"T", ""}

\* paths of one folder: where the processed files lie, and the other files
FilePaths == [Runs -> {"A.md", "B.md", "T.md"}]
OtherPaths == {"T.md", "T (1).md"}

\* `${dir}/${sanitizedTitle}${ext}`, then `${dir}/${sanitizedTitle} (${counter})${ext}`
CandidatePath(sanitizedTitle, counter) ==
    IF counter = 0 THEN sanitizedTitle \o ".md"
    ELSE sanitizedTitle \o " (" \o ToString(counter) \o ")" \o ".md"

\* the paths at which app.vault.getAbstractFileByPath finds a file
VaultPaths == {vaultFiles[r].path : r \in {x \in Runs : vaultFiles[x].present}} \cup folder

\* the while loop over candidatePath and counter
RECURSIVE FreePath(_, _, _)
FreePath(paths, sanitizedTitle, counter) ==
    IF CandidatePath(sanitizedTitle, counter) \in paths
    THEN FreePath(paths, sanitizedTitle, counter + 1)
    ELSE CandidatePath(sanitizedTitle, counter)

IdleRun ==
    [pc |-> "idle", sanitizedTitle |-> "", candidatePath |-> "", finalContent |-> "content",
     statusBarItem |-> FALSE, choice |-> "none", result |-> "none"]

RunInit ==
    /\ \E paths \in FilePaths :
          /\ \A r, q \in Runs : r # q => paths[r] # paths[q]
          /\ vaultFiles = [r \in Runs |-> [path |-> paths[r], present |-> TRUE]]
          /\ folder \in SUBSET (OtherPaths \ {paths[r] : r \in Runs})
    /\ dupSettings \in [enableDuplicateRemoval : BOOLEAN, autoRemoveDuplicates : BOOLEAN,
                        confirmBeforeRemoval : BOOLEAN]
    /\ runs = [r \in Runs |-> IdleRun]
    /\ written = [r \in Runs |-> "none"]

\* a return statement of processSingleFile, through the finally block
Returned(run, operationResult) ==
    [run EXCEPT !.pc = "done", !.result = operationResult, !.statusBarItem = FALSE]

RenameOrModify_firstCandidate(r, run, finalContent) ==
    LET candidatePath == CandidatePath(run.sanitizedTitle, 0)
        next == [run EXCEPT !.finalContent = finalContent, !.candidatePath = candidatePath]
    IN IF candidatePath # vaultFiles[r].path
       THEN [next EXCEPT !.pc = "renameFile"]
       ELSE IF finalContent # "content"
            THEN [next EXCEPT !.pc = "modify"]
            ELSE Returned(next, "unchanged")

\* processSingleFile from path.parse to the next await or return
RenameOrModify(r, run, finalContent) ==
    LET candidatePath == FreePath(VaultPaths, run.sanitizedTitle, 0)
        next == [run EXCEPT !.finalContent = finalContent]
    IN IF candidatePath # vaultFiles[r].path
       THEN [next EXCEPT !.pc = "renameFile", !.candidatePath = candidatePath]
       ELSE IF finalContent # "content"
            THEN [next EXCEPT !.pc = "modify", !.candidatePath = candidatePath]
            ELSE Returned([next EXCEPT !.candidatePath = candidatePath], "unchanged")

\* what handleDuplicateTitles returns once removeDuplicatesFromContent has
\* returned the cleaned content, the content as it was, or thrown
ModifiedContent(removal) == IF removal = "cleaned" THEN "cleaned" ELSE "content"

\* processSingleFile up to the await of generateTitle
ProcessSingleFile(r, blank) ==
    /\ runs[r].pc = "idle"
    /\ vaultFiles[r].present
    /\ runs' = [runs EXCEPT ![r] =
                    IF blank THEN [@ EXCEPT !.pc = "done", !.result = "failed"]
                    ELSE [@ EXCEPT !.pc = "generateTitle", !.statusBarItem = TRUE]]
    /\ UNCHANGED <<vaultFiles, folder, dupSettings, written>>
    /\ UNCHANGED <<genVars, cacheVars, dupVars, fnVars, batchVars, tabVars>>

\* generateTitle returns; on to handleDuplicateTitles, to the rename or to the return
GenerateTitleReturns(r, sanitizedTitle) ==
    /\ runs[r].pc = "generateTitle"
    /\ LET run == [runs[r] EXCEPT !.sanitizedTitle = sanitizedTitle]
       IN runs' = [runs EXCEPT ![r] =
                      IF sanitizedTitle = "" THEN Returned(run, "failed")
                      ELSE IF dupSettings.enableDuplicateRemoval
                           THEN [run EXCEPT !.pc = "handleDuplicateTitles"]
                           ELSE RenameOrModify(r, run, "content")]
    /\ UNCHANGED <<vaultFiles, folder, dupSettings, written>>
    /\ UNCHANGED <<genVars, cacheVars, dupVars, fnVars, batchVars, tabVars>>

HandleDuplicateTitles_notifyRemoves(r, detection_, removal) ==
    /\ runs[r].pc = "handleDuplicateTitles"
    /\ runs' = [runs EXCEPT ![r] =
                    IF detection_ \in {"throws", "noMatch"} THEN RenameOrModify(r, @, "content")
                    ELSE IF dupSettings.confirmBeforeRemoval /\ ~dupSettings.autoRemoveDuplicates
                         THEN [@ EXCEPT !.pc = "dialog"]
                         ELSE RenameOrModify(r, @, ModifiedContent(removal))]
    /\ UNCHANGED <<vaultFiles, folder, dupSettings, written>>
    /\ UNCHANGED <<genVars, cacheVars, dupVars, fnVars, batchVars, tabVars>>

\* handleDuplicateTitles up to its return or to the confirmation dialog
HandleDuplicateTitles(r, detection_, removal) ==
    /\ runs[r].pc = "handleDuplicateTitles"
    /\ runs' = [runs EXCEPT ![r] =
                    IF detection_ \in {"throws", "noMatch"} THEN RenameOrModify(r, @, "content")
                    ELSE IF dupSettings.autoRemoveDuplicates
                         THEN RenameOrModify(r, @, ModifiedContent(removal))
                         ELSE IF dupSettings.confirmBeforeRemoval
                              THEN [@ EXCEPT !.pc = "dialog"]
                              ELSE RenameOrModify(r, @, "content")]
    /\ UNCHANGED <<vaultFiles, folder, dupSettings, written>>
    /\ UNCHANGED <<genVars, cacheVars, dupVars, fnVars, batchVars, tabVars>>

\* the user leaves the DuplicateConfirmationModal: by one of its two buttons,
\* whose handlers call onResult, or by closing it, which runs onClose only
LeaveDialog(r, how, removal) ==
    /\ runs[r].pc = "dialog"
    /\ LET run == [runs[r] EXCEPT !.choice = how]
       IN runs' = [runs EXCEPT ![r] =
                      IF how = "Remove Duplicates"
                      THEN RenameOrModify(r, run, ModifiedContent(removal))
                      ELSE IF how = "Cancel" THEN RenameOrModify(r, run, "content")
                      ELSE [run EXCEPT !.pc = "pending"]]
    /\ UNCHANGED <<vaultFiles, folder, dupSettings, written>>
    /\ UNCHANGED <<genVars, cacheVars, dupVars, fnVars, batchVars, tabVars>>

\* fileManager.renameFile settles: it fails when the target exists by then
RenameFileReturns(r, ok) ==
    /\ runs[r].pc = "renameFile"
    /\ LET run == runs[r]
           renamed == ok /\ vaultFiles[r].present /\ run.candidatePath \notin VaultPaths
       IN /\ vaultFiles' = IF renamed
                           THEN [vaultFiles EXCEPT ![r].path = run.candidatePath]
                           ELSE vaultFiles
          /\ runs' = [runs EXCEPT ![r] =
                          IF ~renamed THEN Returned(run, "failed")
                          ELSE IF run.finalContent # "content"
                               THEN [run EXCEPT !.pc = "modifyRenamed"]
                               ELSE Returned(run, "renamed")]
    /\ UNCHANGED <<folder, dupSettings, written>>
    /\ UNCHANGED <<genVars, cacheVars, dupVars, fnVars, batchVars, tabVars>>

\* vault.modify settles
VaultModifyReturns(r, ok) ==
    /\ runs[r].pc \in {"modify", "modifyRenamed"}
    /\ LET run == runs[r]
           modified == ok /\ vaultFiles[r].present
       IN /\ written' = IF modified THEN [written EXCEPT ![r] = run.finalContent] ELSE written
          /\ runs' = [runs EXCEPT ![r] =
                          IF ~modified THEN Returned(run, "failed")
                          ELSE Returned(run, IF run.pc = "modify" THEN "unchanged" ELSE "renamed")]
    /\ UNCHANGED <<vaultFiles, folder, dupSettings>>
    /\ UNCHANGED <<genVars, cacheVars, dupVars, fnVars, batchVars, tabVars>>

\* the user deletes the file of a run that is under way
DeleteFile(r) ==
    /\ runs[r].pc \notin {"idle", "done"}
    /\ vaultFiles[r].present
    /\ vaultFiles' = [vaultFiles EXCEPT ![r].present = FALSE]
    /\ UNCHANGED <<folder, dupSettings, runs, written>>
    /\ UNCHANGED <<genVars, cacheVars, dupVars, fnVars, batchVars, tabVars>>

----------------------------------------------------------------------------
(* settings.ts: the settings tab as the caller of ModelService *)

\* the backend on display in the settings tab
TabProvider == "ollama"

\* most handler invocations by the user: key or URL changes, provider
\* switches, clicks on the reload button
MaxCalls == 2

\* a call has entered ModelService and not yet returned
InFlight(call) == call.pc \in {"saveLoading", "query", "saveModels", "saveError", "saveFinally"}

NewCall(kind, origin, pc) == [kind |-> kind, origin |-> origin, pc |-> pc, button |-> origin = "button"]

TabInit ==
    /\ calls = <<>>
    /\ reloadDisabled = FALSE

\* the user can invoke another handler
UserActs == Cardinality({c \in DOMAIN calls : calls[c].origin # "dropdown"}) < MaxCalls

\* display(): the tab is rendered anew; the new reload button is disabled while
\* isLoading, and populateModelDropdown calls getModels unless isLoading, which
\* queries unless the entry is fresh
Display(cs, loading, cache) ==
    LET old == [c \in DOMAIN cs |-> [cs[c] EXCEPT !.button = FALSE]]
    IN IF loading \/ IsFreshEntry(cache[TabProvider], now) THEN old
       ELSE Append(old, NewCall("getModels", "dropdown", "query"))

\* call c has returned to the handler that made it
TabReturns(c, loading, cache) ==
    LET cs == [calls EXCEPT ![c].pc = "done"]
    IN IF cs[c].origin \in {"autoReload", "autoLoad"}
       THEN /\ calls' = Display(cs, loading, cache)
            /\ reloadDisabled' = loading
       ELSE /\ calls' = cs
            /\ reloadDisabled' = IF cs[c].origin = "button" /\ cs[c].button THEN FALSE
                                 ELSE reloadDisabled

\* onChange of the API key or the confirmed URL: autoReloadModels sets a timer
ChangeApiKey ==
    /\ UserActs
    /\ calls' = Append(calls, NewCall("refreshModels", "autoReload", "timer"))
    /\ UNCHANGED reloadDisabled
    /\ UNCHANGED <<cacheVars, genVars, dupVars, fnVars, batchVars, runVars>>

\* onChange of the provider dropdown: autoLoadModelsForProvider sets a timer,
\* then display()
SwitchProvider ==
    /\ UserActs
    /\ calls' = Display(Append(calls, NewCall("getModels", "autoLoad", "timer")),
                        isLoading(TabProvider), cachedModels)
    /\ reloadDisabled' = isLoading(TabProvider)
    /\ UNCHANGED <<cacheVars, genVars, dupVars, fnVars, batchVars, runVars>>

\* onClick of the reload button: refreshModels up to its first await
ClickReload ==
    /\ UserActs
    /\ ~reloadDisabled
    /\ reloadDisabled' = TRUE
    /\ calls' = Append([c \in DOMAIN calls |-> [calls[c] EXCEPT !.button = FALSE]],
                       NewCall("refreshModels", "button", "saveLoading"))
    /\ modelLoadingState' = [modelLoadingState EXCEPT ![TabProvider] = TRUE]
    /\ UNCHANGED <<revision, cachedModels, now, ops, catalogueRequests>>
    /\ UNCHANGED <<genVars, dupVars, fnVars, batchVars, runVars>>

\* a timer of autoReloadModels or autoLoadModelsForProvider fires: the call up
\* to its first await
TimerFires(c) ==
    /\ c \in DOMAIN calls
    /\ calls[c].pc = "timer"
    /\ IF calls[c].kind = "refreshModels"
       THEN /\ modelLoadingState' = [modelLoadingState EXCEPT ![TabProvider] = TRUE]
            /\ calls' = [calls EXCEPT ![c].pc = "saveLoading"]
            /\ UNCHANGED reloadDisabled
       ELSE /\ UNCHANGED modelLoadingState
            /\ IF IsFreshEntry(cachedModels[TabProvider], now)
               THEN TabReturns(c, isLoading(TabProvider), cachedModels)
               ELSE calls' = [calls EXCEPT ![c].pc = "query"] /\ UNCHANGED reloadDisabled
    /\ UNCHANGED <<revision, cachedModels, now, ops, catalogueRequests>>
    /\ UNCHANGED <<genVars, dupVars, fnVars, batchVars, runVars>>

\* the saveSettings awaited before the try block of refreshModels settles
TabSaveLoadingReturns(c) ==
    /\ c \in DOMAIN calls
    /\ calls[c].pc = "saveLoading"
    /\ calls' = [calls EXCEPT ![c].pc = "query"]
    /\ UNCHANGED reloadDisabled
    /\ UNCHANGED <<cacheVars, genVars, dupVars, fnVars, batchVars, runVars>>

\* queryModels settles: cacheModels or cacheError up to its await; getModels
\* caches a list only when it is not empty
TabQueryReturns(c, r) ==
    /\ c \in DOMAIN calls
    /\ calls[c].pc = "query"
    /\ IF r.ok /\ (calls[c].kind = "refreshModels" \/ Len(r.models) > 0)
       THEN /\ cachedModels' = cacheModels(cachedModels, TabProvider, r.models, now)
            /\ calls' = [calls EXCEPT ![c].pc = "saveModels"]
            /\ UNCHANGED reloadDisabled
       ELSE IF r.ok
            THEN /\ UNCHANGED cachedModels
                 /\ TabReturns(c, isLoading(TabProvider), cachedModels)
            ELSE /\ cachedModels' = cacheError(cachedModels, TabProvider,
                                               getErrorMessage(r.message))
                 /\ calls' = [calls EXCEPT ![c].pc = "saveError"]
                 /\ UNCHANGED reloadDisabled
    /\ UNCHANGED <<revision, modelLoadingState, now, ops, catalogueRequests>>
    /\ UNCHANGED <<genVars, dupVars, fnVars, batchVars, runVars>>

\* the saveSettings awaited by cacheModels or cacheError settles: getModels
\* returns, refreshModels enters its finally block
TabSaveEntryReturns(c) ==
    /\ c \in DOMAIN calls
    /\ calls[c].pc \in {"saveModels", "saveError"}
    /\ IF calls[c].kind = "refreshModels"
       THEN /\ modelLoadingState' = [modelLoadingState EXCEPT ![TabProvider] = FALSE]
            /\ calls' = [calls EXCEPT ![c].pc = "saveFinally"]
            /\ UNCHANGED reloadDisabled
       ELSE /\ UNCHANGED modelLoadingState
            /\ TabReturns(c, isLoading(TabProvider), cachedModels)
    /\ UNCHANGED <<revision, cachedModels, now, ops, catalogueRequests>>
    /\ UNCHANGED <<genVars, dupVars, fnVars, batchVars, runVars>>

\* the saveSettings awaited in the finally block settles: refreshModels returns
TabSaveFinallyReturns(c) ==
    /\ c \in DOMAIN calls
    /\ calls[c].pc = "saveFinally"
    /\ TabReturns(c, isLoading(TabProvider), cachedModels)
    /\ UNCHANGED <<cacheVars, genVars, dupVars, fnVars, batchVars, runVars>>

----------------------------------------------------------------------------
(* specifications *)

GenQuiet ==
    /\ snapshot = "aiService.ts"
    /\ settings = DEFAULT_SETTINGS
    /\ gpc = "idle"
    /\ title = ""
    /\ draft = ""
    /\ drafted = FALSE
    /\ requests = 0
    /\ result = ""
    /\ outcome = "none"

CacheQuiet ==
    /\ revision = "modelService.ts"
    /\ cachedModels = [p \in CacheProviders |-> NoEntry]
    /\ modelLoadingState = [p \in CacheProviders |-> FALSE]
    /\ now = StartTime
    /\ ops = IdleOp
    /\ catalogueRequests = [p \in CacheProviders |-> 0]

DupQuiet ==
    /\ docContent = ""
    /\ docTitle = ""
    /\ sensitivity = "normal"
    /\ configInScope = FALSE
    /\ detection = NoDetection
    /\ toRemove = <<>>
    /\ removed = NoRemoval
    /\ dpc = "idle"

FnQuiet ==
    /\ fnInput = ""
    /\ fnName = "none"
    /\ fnOutput = NoOutput

BatchQuiet ==
    /\ files = 0
    /\ enableDuplicateRemoval = FALSE
    /\ fileStep = <<>>
    /\ fileResult = <<>>
    /\ started = <<>>
    /\ processed = 0
    /\ succeeded = 0
    /\ failed = 0

RunQuiet ==
    /\ vaultFiles = <<>>
    /\ folder = {}
    /\ dupSettings = [enableDuplicateRemoval |-> FALSE, autoRemoveDuplicates |-> FALSE,
                      confirmBeforeRemoval |-> FALSE]
    /\ runs = <<>>
    /\ written = <<>>

TabQuiet ==
    /\ calls = <<>>
    /\ reloadDisabled = FALSE

\* title generation
Init == GenInit /\ CacheQuiet /\ DupQuiet /\ FnQuiet /\ BatchQuiet /\ RunQuiet /\ TabQuiet

Next ==
    \/ SetSettings
    \/ Finish
    \/ GenerateTitle
    \/ DraftFails
    \/ \E raw \in RawTexts : DraftResponse(raw)
    \/ RefineFails
    \/ \E raw \in RawTexts : RefineResponse(raw)

Spec == Init /\ [][Next]_vars

\* the model catalogue cache
CacheSpecInit == GenQuiet /\ CacheInit /\ DupQuiet /\ FnQuiet /\ BatchQuiet /\ RunQuiet /\ TabQuiet

CacheNext ==
    \/ Tick
    \/ Complete
    \/ \E p \in CacheProviders : GetModels(p)
    \/ \E r \in QueryOutcomes(ops.provider) : GetModelsQueryReturns(r)
    \/ \E saved \in BOOLEAN : GetModelsSaveModelsReturns(saved)
    \/ \E saved \in BOOLEAN : GetModelsSaveErrorReturns(saved)
    \/ \E p \in CacheProviders : RefreshModels(p)
    \/ \E saved \in BOOLEAN : RefreshSaveLoadingReturns(saved)
    \/ \E r \in QueryOutcomes(ops.provider) : RefreshQueryReturns(r)
    \/ \E saved \in BOOLEAN : RefreshSaveModelsReturns(saved)
    \/ \E saved \in BOOLEAN : RefreshSaveErrorReturns(saved)
    \/ \E saved \in BOOLEAN : RefreshSaveFinallyReturns(saved)

CacheSpec == CacheSpecInit /\ [][CacheNext]_vars

\* duplicate detection and removal
DupSpecInit == GenQuiet /\ CacheQuiet /\ DupInit /\ FnQuiet /\ BatchQuiet /\ RunQuiet /\ TabQuiet

DupNext ==
    \/ \E l \in DocLines : EditNote(l)
    \/ Detect
    \/ \E removeOnlyExactMatches \in BOOLEAN : Remove(removeOnlyExactMatches)
    \/ Close

DupSpec == DupSpecInit /\ [][DupNext]_vars

\* the pure helpers
FnSpecInit == GenQuiet /\ CacheQuiet /\ DupQuiet /\ FnInit /\ BatchQuiet /\ RunQuiet /\ TabQuiet

FnNext ==
    \/ ApplySanitizeFilename
    \/ \E title2 \in OtherTitles : ApplyCalculateTitleSimilarity(title2)
    \/ \E version \in CleanerVersions : ApplyCleanAIResponse(version)
    \/ \E error \in Errors : ApplyIsRetryableError(error)
    \/ \E maxLength \in TruncateLimits : ApplyTruncateTitle(maxLength)

FnSpec == FnSpecInit /\ [][FnNext]_vars

\* the batch command
BatchSpecInit == GenQuiet /\ CacheQuiet /\ DupQuiet /\ FnQuiet /\ BatchInit /\ RunQuiet /\ TabQuiet

BatchNext ==
    \/ \E i \in 1..MaxFiles : StartFile(i)
    \/ \E i \in 1..MaxFiles, content \in {"text", "blank", "misconfigured", "throws"} :
            ReadReturns(i, content)
    \/ \E i \in 1..MaxFiles, answer \in {"fits", "tooLong", "fails"}, samePath \in BOOLEAN :
            DraftReturns(i, answer, samePath)
    \/ \E i \in 1..MaxFiles, answer \in {"title", "fails"}, samePath \in BOOLEAN :
            RefineReturns(i, answer, samePath)
    \/ \E i \in 1..MaxFiles, contentModified \in BOOLEAN, samePath \in BOOLEAN :
            DuplicatesReturn(i, contentModified, samePath)
    \/ \E i \in 1..MaxFiles, ok \in BOOLEAN : RenameReturns(i, ok)
    \/ \E i \in 1..MaxFiles, ok \in BOOLEAN : ModifyReturns(i, ok)

BatchSpec == BatchSpecInit /\ [][BatchNext]_vars

RunSpecInit == GenQuiet /\ CacheQuiet /\ DupQuiet /\ FnQuiet /\ BatchQuiet /\ RunInit /\ TabQuiet

RunNext ==
    \/ \E r \in Runs, blank \in BOOLEAN : ProcessSingleFile(r, blank)
    \/ \E r \in Runs, sanitizedTitle \in SanitizedTitles : GenerateTitleReturns(r, sanitizedTitle)
    \/ \E r \in Runs, detection_ \in {"throws", "noMatch", "selected"},
          removal \in {"cleaned", "content", "throws"} : HandleDuplicateTitles(r, detection_, removal)
    \/ \E r \in Runs, how \in {"Remove Duplicates", "Cancel", "closed"},
          removal \in {"cleaned", "content", "throws"} : LeaveDialog(r, how, removal)
    \/ \E r \in Runs, ok \in BOOLEAN : RenameFileReturns(r, ok)
    \/ \E r \in Runs, ok \in BOOLEAN : VaultModifyReturns(r, ok)
    \/ \E r \in Runs : DeleteFile(r)

RunSpec == RunSpecInit /\ [][RunNext]_vars

\* the awaited calls settle, and the user leaves a dialog that is open
RunLiveSpec ==
    /\ RunSpecInit
    /\ [][RunNext]_vars
    /\ \A r \in Runs :
          /\ WF_vars(\E sanitizedTitle \in SanitizedTitles : GenerateTitleReturns(r, sanitizedTitle))
          /\ WF_vars(\E detection_ \in {"throws", "noMatch", "selected"},
                        removal \in {"cleaned", "content", "throws"} :
                            HandleDuplicateTitles(r, detection_, removal))
          /\ WF_vars(\E how \in {"Remove Duplicates", "Cancel", "closed"},
                        removal \in {"cleaned", "content", "throws"} : LeaveDialog(r, how, removal))
          /\ WF_vars(\E ok \in BOOLEAN : RenameFileReturns(r, ok))
          /\ WF_vars(\E ok \in BOOLEAN : VaultModifyReturns(r, ok))

TabSpecInit ==
    /\ GenQuiet /\ CacheQuiet /\ DupQuiet /\ FnQuiet /\ BatchQuiet /\ RunQuiet /\ TabInit

TabNext ==
    \/ ChangeApiKey
    \/ SwitchProvider
    \/ ClickReload
    \/ \E c \in 1..(2 * MaxCalls) : TimerFires(c)
    \/ \E c \in 1..(2 * MaxCalls) : TabSaveLoadingReturns(c)
    \/ \E c \in 1..(2 * MaxCalls), r \in QueryOutcomes(TabProvider) : TabQueryReturns(c, r)
    \/ \E c \in 1..(2 * MaxCalls) : TabSaveEntryReturns(c)
    \/ \E c \in 1..(2 * MaxCalls) : TabSaveFinallyReturns(c)

TabSpec == TabSpecInit /\ [][TabNext]_vars

----------------------------------------------------------------------------
(* claims about title generation, checked under Spec *)

\* C1: a generateTitle call issues at most 2 backend requests: exactly 1 once a
\* draft no longer than maxTitleLength has arrived, exactly 2 once a longer
\* draft has arrived, whatever the refinement returns
C1_RequestBound ==
    /\ requests <= 2
    /\ (drafted /\ Len(draft) <= settings.maxTitleLength) => requests = 1
    /\ (drafted /\ Len(draft) > settings.maxTitleLength) => requests = 2

\* a call that refined once, got an over-length refinement and still returned
C1_Witness ==
    /\ gpc = "done" /\ outcome = "title" /\ requests = 2
    /\ Len(title) > settings.maxTitleLength

\* C2: with an empty or blank credential / endpoint, or with no model selected,
\* generateTitle fails and issues no backend request, for every provider
C2_NoRequestWhenMisconfigured ==
    LET missing == /\ settings.aiProvider \in Providers
                   /\ Trim(ActiveCredential) = "" \/ ActiveModel = ""
    IN missing => /\ requests = 0
                  /\ gpc = "done" => result = "" /\ outcome # "title"

\* C3: the returned title is never longer than maxTitleLength
C3_LengthBound ==
    gpc = "done" => Len(result) <= settings.maxTitleLength

\* the "Untitled" fallback cut down to a limit of 3 characters
C3_Witness ==
    /\ gpc = "done" /\ outcome = "title"
    /\ settings.removeForbiddenChars /\ settings.maxTitleLength = 3
    /\ title = "..." /\ result = "Unt"

----------------------------------------------------------------------------
(* claims about the model catalogue cache, checked under CacheSpec *)

C5_FailedQueryKeepsEntry ==
    LET b == ops.provider
        before == ops.cacheAtCall[b]
        after == cachedModels[b]
    IN ops.queryResult = "failed" =>
          /\ after.present
          /\ after.models = (IF before.present THEN before.models ELSE <<>>)
          /\ after.lastUpdated = (IF before.present THEN before.lastUpdated ELSE 0)
          /\ after.error = ops.message /\ ops.message # ""
          /\ \A q \in CacheProviders \ {b} : cachedModels[q] = ops.cacheAtCall[q]

\* a refreshModels call whose query failed over an entry that had a list
C5_Witness ==
    /\ ops.kind = "refreshModels" /\ ops.pc = "done" /\ ops.queryResult = "failed"
    /\ Len(ops.cacheAtCall[ops.provider].models) = 2
    /\ ops.cacheAtCall[ops.provider].error = ""
    /\ cachedModels[ops.provider].models = ops.cacheAtCall[ops.provider].models
    /\ cachedModels[ops.provider].error # ""

\* C6: after a failed query getModels returns the list cached before the call,
\* or the empty list without one, and refreshModels returns the empty list
C6_FailureResult ==
    LET before == ops.cacheAtCall[ops.provider]
    IN (ops.pc = "done" /\ ops.queryResult = "failed" /\ ~ops.threw) =>
          IF ops.kind = "getModels"
          THEN ops.returned = (IF before.present THEN before.models ELSE <<>>)
          ELSE ops.returned = <<>>

\* C7: after a successful query getModels has overwritten the entry with the
\* returned list and the current time, cleared its error, and returns the list
C7_SuccessOverwrites ==
    (ops.kind = "getModels" /\ ops.pc = "done" /\ ops.queryResult = "ok") =>
        /\ cachedModels[ops.provider] =
              [present |-> TRUE, models |-> ops.queried, lastUpdated |-> now, error |-> ""]
        /\ ops.returned = ops.queried
        /\ ~ops.threw

\* C8: a completed refreshModels(b) call has issued a catalogue query and has
\* left the loading flag of b false
C8_RefreshQueriesAndClearsFlag ==
    (ops.kind = "refreshModels" /\ ops.pc = "done") =>
        /\ catalogueRequests[ops.provider] = 1
        /\ ~isLoading(ops.provider)

----------------------------------------------------------------------------
(* claims about duplicate removal, checked under DupSpec *)

\* C9: removeDuplicatesFromContent never returns an empty document, and
\* returns the content unchanged when every line with text is to be removed
C9_RemovalNeverEmpties ==
    LET lines == Split(docContent)
        numbers == {toRemove[k].lineNumber : k \in 1..Len(toRemove)}
    IN dpc = "removed" =>
          /\ ~removed.threw
          /\ removed.content # ""
          /\ (\A i \in 1..Len(lines) : Trim(lines[i]) = "" \/ i \in numbers)
                => removed.content = docContent

\* C10: the lines with text of the result are the lines with text of the
\* content, in their order, without the lines whose numbers the matches carry
C10_RemovesExactlyMatchedLines ==
    LET lines == Split(docContent)
        numbers == {toRemove[k].lineNumber : k \in 1..Len(toRemove)}
        kept == {i \in 1..Len(lines) : i \notin numbers /\ Trim(lines[i]) # ""}
        nth(k) == CHOOSE i \in kept : Cardinality({j \in kept : j <= i}) = k
        kept_lines == SelectSeq(Split(removed.content), LAMBDA l : Trim(l) # "")
    IN dpc = "removed" =>
          /\ ~removed.threw
          /\ Len(kept_lines) = Cardinality(kept)
          /\ \A k \in 1..Len(kept_lines) : kept_lines[k] = lines[nth(k)]

\* C19: startIndex and endIndex of every match returned by
\* detectTitleInContent are the offsets of the matched text on the line
\* lineNumber: the slice of the document between them is matchedText and lies
\* inside that line, also when the same text occurs earlier in the document
C19_MatchOffsets ==
    LET lines == Split(docContent)
        RECURSIVE LineStart(_)
        LineStart(n) == IF n = 1 THEN 0 ELSE LineStart(n - 1) + Len(lines[n - 1]) + 1
    IN (~detection.threw /\ detection.found) =>
          \A k \in 1..Len(detection.matches) :
              LET m == detection.matches[k]
              IN /\ SubSeq(docContent, m.startIndex + 1, m.endIndex) = m.matchedText
                 /\ m.startIndex >= LineStart(m.lineNumber)
                 /\ m.endIndex <= LineStart(m.lineNumber) + Len(lines[m.lineNumber])

\* C22: removeDuplicatesFromContent deletes the matched lines and limits the
\* run of blank lines at the very start of the document to the configured
\* maximum; every other part of the document, blank lines further down
\* included, is as it was
C22_OnlyLeadingBlankLinesChange ==
    LET max == DUPLICATE_CONFIG.MAX_CONSECUTIVE_EMPTY_LINES
        joined == Join(SpliceMatches(Split(docContent), SortByStartIndexDesc(toRemove)))
        rest == StripLeading(joined, {"\n"})
        run == Len(joined) - Len(rest)
    IN (dpc = "removed" /\ ~removed.threw) =>
          removed.content = RepeatNewline(Min({run, max})) \o rest

\* C23: with removeOnlyExactMatches off every match that detectTitleInContent
\* reported at the configured sensitivity is selected for removal; with it on
\* exactly the matches at or above the exact-match threshold are selected
C23_SelectionFollowsPolicy ==
    [][/\ Remove(FALSE) => toRemove' = detection.matches
       /\ Remove(TRUE) =>
              toRemove' = SelectSeq(detection.matches,
                                    LAMBDA m : AtLeast(m.similarity,
                                                       DUPLICATE_CONFIG.EXACT_MATCH_THRESHOLD))]_vars

----------------------------------------------------------------------------
(* further claims about title generation, checked under Spec *)

\* C11: when the backend answered and the normalized text is empty, or (with
\* stripping on) holds nothing a file name can keep, generateTitle returns the
\* failure signal '' and never the placeholder "Untitled"
C11_EmptyTextFails ==
    LET kept == StripTrailing(StripLeading(Trim(CollapseSpaces(
                    RemoveChars(title, ForbiddenChars))), {" ", "."}), {" ", "."})
        unusable == title = "" \/ (settings.removeForbiddenChars /\ kept = "")
    IN (gpc = "done" /\ drafted /\ outcome # "error") =>
          /\ unusable => result = ""
          /\ result # "Untitled"

\* C17: once a backend call of generateTitle has failed, the call is over and
\* has returned '': a failed draft request is the only request of the call,
\* a failed refinement request is the second and last one
C17_FailedCallEndsGeneration ==
    (outcome = "error" /\ requests >= 1) =>
        /\ gpc = "done"
        /\ result = ""
        /\ requests = (IF drafted THEN 2 ELSE 1)

\* a draft longer than the limit arrived and the refinement request failed
C17_Witness ==
    /\ gpc = "done" /\ outcome = "error" /\ result = ""
    /\ drafted /\ Len(draft) > settings.maxTitleLength /\ title = draft
    /\ requests = 2

\* C20: with forbidden-character stripping on, every title generateTitle
\* returns is a fixed point of sanitizeFilename, also after the truncation
C20_ReturnedTitleSanitized ==
    (gpc = "done" /\ outcome = "title" /\ settings.removeForbiddenChars) =>
        sanitizeFilename(result) = result

----------------------------------------------------------------------------
(* claims about the pure helpers, checked under FnSpec *)

\* C12: sanitizeFilename is idempotent: applied to its own result it returns
\* that result, also when the result is the fallback "Untitled"
C12_SanitizeIdempotent ==
    fnName = "sanitizeFilename" => sanitizeFilename(fnOutput.text) = fnOutput.text

\* an input of forbidden characters, dots and whitespace only
C12_Witness ==
    /\ fnName = "sanitizeFilename"
    /\ fnInput = " ./\t"
    /\ fnOutput.text = "Untitled"

\* C13: calculateTitleSimilarity(a, b) is 1 - editDistance / max(len) over
\* the normalized strings: 1 when they are identical, 0 whenever either is
\* empty, always within [0, 1], and 1 for "Setup Guide" and "# Setup Guide"
C13_Similarity ==
    LET n1 == normalizeTitleForComparison(fnInput)
        n2 == normalizeTitleForComparison(fnOutput.other)
        longest == Max({Len(n1), Len(n2)})
    IN fnName = "calculateTitleSimilarity" =>
          /\ fnOutput.den > 0
          /\ 0 <= fnOutput.num /\ fnOutput.num <= fnOutput.den
          /\ n1 = n2 => fnOutput.num = fnOutput.den
          /\ (n1 = "" \/ n2 = "") => fnOutput.num = 0
          /\ (n1 # "" /\ n2 # "") =>
                fnOutput.num * longest = (longest - levenshteinDistance(n1, n2)) * fnOutput.den
          /\ (fnInput = "Setup Guide" /\ fnOutput.other = "# Setup Guide") =>
                fnOutput.num = fnOutput.den

\* C14: a response that is one thinking block and nothing else is cleaned to
\* the cleaned inner content of the block, not to the empty string, whenever
\* the inner content survives cleaning; "<think>Hello World</think>" gives
\* "Hello World"
C14_SoleBlockUnwrapped ==
    LET n == Len(fnInput)
        inner == SubSeq(fnInput, 8, n - 8)
        soleBlock == /\ n >= 15
                     /\ SliceTo(fnInput, 7) = "<think>"
                     /\ SubSeq(fnInput, n - 7, n) = "</think>"
                     /\ IndexOf(inner, "<think>") = 0
                     /\ IndexOf(inner, "</think>") = 0
        cleanedInner == CleanedBy(fnOutput.other, inner)
    IN fnName = "cleanAIResponse" =>
          /\ (soleBlock /\ cleanedInner # "") => fnOutput.text = cleanedInner
          /\ fnInput = "<think>Hello World</think>" => fnOutput.text = "Hello World"

\* C15: when a response holds paired thinking regions and text outside them,
\* the cleaned title has no marker and is the cleaned title of the response
\* with the regions deleted, so it holds no text from inside a region
C15_EmbeddedRegionsStripped ==
    LET deleted == ReplaceRegions(fnInput, "<think>", "</think>", "")
        embedded == /\ IndexOf(fnInput, "<think>") > 0
                    /\ MarkersPaired(fnInput)
                    /\ Trim(deleted) # ""
    IN (fnName = "cleanAIResponse" /\ embedded) =>
          /\ IndexOf(fnOutput.text, "<think>") = 0
          /\ IndexOf(fnOutput.text, "</think>") = 0
          /\ fnOutput.text = CleanedBy(fnOutput.other, deleted)

\* C16: isRetryableError is true for every network error, every timeout and
\* every API error with status 429 or 5xx, raw or built by createApiError,
\* and false for every configuration error and every validation error
C16_RetryableClasses ==
    LET error == fnOutput.error
        status == IF error.instance = "Error" THEN StatusOf(error.message)
                  ELSE error.statusCode
        transient == \/ error.class \in {"network", "timeout"}
                     \/ error.class = "api" /\ (status = 429 \/ (status >= 500 /\ status <= 599))
    IN fnName = "isRetryableError" =>
          /\ transient => fnOutput.retryable
          /\ error.class \in {"configuration", "validation"} => ~fnOutput.retryable

\* C21: for a title t longer than n, truncateTitle(t, n) is the longest
\* prefix of t of length at most n that ends at a word boundary (a character
\* other than a space followed by a space); when t has no space up to the
\* limit it is the first n characters of t
C21_CutsAtLastWordBoundary ==
    LET t == fnInput
        n == fnOutput.maxLength
        boundaries == {k \in 1..n : CharAt(t, k) # " " /\ CharAt(t, k + 1) = " "}
    IN (fnName = "truncateTitle" /\ Len(t) > n) =>
          /\ boundaries # {} => fnOutput.text = SliceTo(t, Max(boundaries))
          /\ IndexOf(SliceTo(t, n + 1), " ") = 0 => fnOutput.text = SliceTo(t, n)

----------------------------------------------------------------------------
(* claims about the batch command, checked under BatchSpec *)

\* C18: during generateTitlesForMultipleFiles at most one generation request
\* is in flight, the processing of a file begins only when the processing of
\* every file before it has ended, and the files are taken in list order
C18_OneFileAtATime ==
    LET inFlight == {i \in 1..files : fileStep[i] \in RequestSteps}
    IN /\ Cardinality(inFlight) <= 1
       /\ \A i, j \in 1..files :
             (i < j /\ fileStep[j] # "waiting") => fileStep[i] = "done"
       /\ \A k \in 1..Len(started) : started[k] = k

\* the third file is being generated after the first was renamed and
\* rewritten and the second failed
C18_Witness ==
    /\ files = 3 /\ enableDuplicateRemoval
    /\ fileResult[1] = "renamed" /\ fileResult[2] = "failed"
    /\ fileStep[3] = "refineRequest"
    /\ started = <<1, 2, 3>>

\* C29: processed = succeeded + failed after every file and processed = total
\* once every file has ended; succeeded counts the files whose title was
\* generated and applied, failed the files whose generation or rename failed
C29_CountersTellOutcomes ==
    LET ended(results) == Cardinality({i \in 1..files : fileResult[i] \in results})
    IN /\ processed = succeeded + failed
       /\ (\A i \in 1..files : fileStep[i] = "done") => processed = files
       /\ succeeded = ended({"renamed", "unchanged"})
       /\ failed = ended({"failed", "empty", "noTitle"})

----------------------------------------------------------------------------
(* claims about processSingleFile, checked under RunSpec *)

\* C24: when the generated title is the current name of the file, so that the
\* first candidate path is the file's own path, processSingleFile calls no
\* rename for it
C24_SameTitleNoRename ==
    \A r \in Runs :
        runs[r].pc = "renameFile" =>
            CandidatePath(runs[r].sanitizedTitle, 0) # vaultFiles[r].path

\* C25: in the step in which a run calls renameFile no file lies at the target
\* path, and the target is the first path of '<title>', '<title> (1)',
\* '<title> (2)', ... at which no file lies; the search needs no more
\* candidates than the vault has files, plus one; also while another run with
\* the same title is under way
C25_RenameTargetIsFirstFree ==
    [][\A r \in Runs :
          (runs[r].pc # "renameFile" /\ runs'[r].pc = "renameFile") =>
              /\ runs'[r].candidatePath \notin VaultPaths
              /\ \E k \in 0..Cardinality(VaultPaths) :
                    /\ runs'[r].candidatePath = CandidatePath(runs'[r].sanitizedTitle, k)
                    /\ \A j \in 0..(k - 1) :
                          CandidatePath(runs'[r].sanitizedTitle, j) \in VaultPaths]_vars

\* two runs stand at renameFile with the same target, found behind an occupied first candidate
C25_Witness ==
    /\ \A r \in Runs : runs[r].pc = "renameFile" /\ runs[r].candidatePath = "T (1).md"
    /\ "T.md" \in VaultPaths

\* C28: every run of processSingleFile that has put up its 'Generating
\* title...' status item removes it in the end, whichever way the user leaves
\* the confirmation dialog, provided the awaited calls settle
C28_RunCompletes ==
    \A r \in Runs : runs[r].statusBarItem ~> ~runs[r].statusBarItem

\* C30: a run writes content other than the note's own only when duplicate
\* removal is enabled and either autoRemoveDuplicates is set or
\* confirmBeforeRemoval is set and the user pressed 'Remove Duplicates'
C30_WritesOnlyWithConsent ==
    \A r \in Runs :
        written[r] # "none" =>
            /\ written[r] = "cleaned"
            /\ dupSettings.enableDuplicateRemoval
            /\ \/ dupSettings.autoRemoveDuplicates
               \/ dupSettings.confirmBeforeRemoval /\ runs[r].choice = "Remove Duplicates"

\* a run has written cleaned content after the user confirmed in the dialog
C30_Witness ==
    \E r \in Runs :
        /\ written[r] = "cleaned"
        /\ ~dupSettings.autoRemoveDuplicates
        /\ runs[r].choice = "Remove Duplicates"
        /\ runs[r].result = "renamed"

----------------------------------------------------------------------------
(* claims about the settings tab and the cache, checked under TabSpec *)

\* C26: of the calls the settings tab makes for a backend (reload button, key
\* and URL change handlers, provider switch) at most one is inside
\* ModelService at any time
C26_OneCacheOperationInFlight ==
    Cardinality({c \in DOMAIN calls : InFlight(calls[c])}) <= 1

\* C27: isLoading(b) is true whenever a refreshModels(b) call is awaiting its
\* live query, also when two such calls overlap
C27_LoadingWhileRefreshing ==
    (\E c \in DOMAIN calls : calls[c].kind = "refreshModels" /\ calls[c].pc = "query")
        => isLoading(TabProvider)

====
